---- MODULE Spec2Model ----
(***************************************************************************)
(* Facets, TOC pagesets, news feedsets and the Atom archive splitter of    *)
(* ferenda.DocumentRepository, modelled from documentrepository.py and     *)
(* facet.py.                                                               *)
(*                                                                         *)
(* The specifications share the variables below:                           *)
(*   SpecAtom    - one call of news_write_atom, one step per loop iteration*)
(*   SpecToc     - toc_pagesets followed by toc_select_for_pages           *)
(*   SpecNews    - news_feedsets followed by news_select_for_feeds         *)
(*   SpecFeed    - news_facet_entries and the two news steps after it      *)
(*   SpecFacet   - Facet construction and comparison                       *)
(*   SpecRerun   - the two TOC steps, made twice on the same rows          *)
(*   SpecLibrary - one call of a function of the Facet library             *)
(*   SpecBuild   - runs of faceted_data(), toc() and news() on one store   *)
(*   SpecWrite   - the file writes of one run, with a concurrent reader    *)
(*   SpecFulltext- one call of _relate_fulltext_value                      *)
(*   SpecLanding - the TOC steps of toc(), up to the landing page          *)
(*   SpecSelect  - faceted_data() making its rows from the selected rows   *)
(***************************************************************************)
EXTENDS Integers, Sequences, FiniteSets, TLC

VARIABLES
    pc,          \* position of the running call
    entries,     \* news_write_atom: the caller's list object (cut in place)
    archivesize, \* news_write_atom: parameter
    cnt,         \* news_write_atom: number of archive chunks cut so far
    res,         \* news_write_atom: list of written file names (return value)
    written,     \* news_write_atom: the calls of write_file, in call order
    orig,        \* news_write_atom: the entry list as it was at call time
    data,        \* toc/news: list of rows
    facets,      \* toc/news: list of Facet objects
    pagesets,    \* toc: result of toc_pagesets
    pagecontent, \* toc: result of toc_select_for_pages
    feedsets,    \* news: result of news_feedsets, filled by news_select_for_feeds
    raised,      \* the call that raised and its exception, or NoException
    docentries,  \* news: the DocumentEntry files of the repository
    fdata,       \* news: the rows returned by faceted_data()
    callargs,    \* the arguments of the calls made
    callret,     \* what the calls returned
    firstrun,    \* toc: the results of the previous run on the same rows
    files,       \* the store: path -> modification time, content, bytes written
    clock,       \* the store: the time of the latest write
    repo,        \* the repository: its configuration and the state of its data
    runlog,      \* the latest run of faceted_data(), toc() or news()
    writer,      \* the file being written and how far the write has come
    observed     \* what a concurrent reader has seen of the output files

vars == <<pc, entries, archivesize, cnt, res, written, orig,
          data, facets, pagesets, pagecontent, feedsets, raised,
          docentries, fdata, callargs, callret, firstrun,
          files, clock, repo, runlog, writer, observed>>

atomvars == <<entries, archivesize, cnt, res, written, orig>>
facetvars == <<data, facets, pagesets, pagecontent, feedsets>>
sourcevars == <<docentries, fdata>>
callvars == <<callargs, callret>>
storevars == <<files, clock, repo, runlog, writer, observed>>
othervars == <<sourcevars, callvars, firstrun, storevars>>

----------------------------------------------------------------------------
(* Bounds *)

MaxEntries == 30
MaxArchive == 10
MaxRows == 3
MaxDocs == 2
MaxClock == 6

----------------------------------------------------------------------------
(* Generic helpers *)

NoException == [call |-> "none", exc |-> "none"]

RECURSIVE SeqConcat(_)
SeqConcat(ss) ==
    IF ss = <<>> THEN <<>> ELSE Head(ss) \o SeqConcat(Tail(ss))

Range(s) == {s[i] : i \in DOMAIN s}

\* no earlier run
NoRun == [ran |-> FALSE]

\* the variables of the parts of the program that are not running
SourceIdle == docentries = <<>> /\ fdata = <<>>
CallIdle == callargs = <<>> /\ callret = <<>>
RunIdle == firstrun = NoRun
StoreIdle ==
    /\ files = <<>> /\ clock = 0 /\ repo = <<>>
    /\ runlog = NoRun /\ writer = <<>> /\ observed = {}
OtherIdle == SourceIdle /\ CallIdle /\ RunIdle /\ StoreIdle
AtomIdle ==
    /\ entries = <<>> /\ archivesize = 1 /\ cnt = 0
    /\ res = <<>> /\ written = <<>> /\ orig = <<>>
FacetIdle ==
    /\ data = <<>> /\ facets = <<>> /\ pagesets = <<>>
    /\ pagecontent = <<>> /\ feedsets = <<>>

----------------------------------------------------------------------------
(* news_write_atom: names of the files of one feed *)

\* Python None, as a prevarchive/nextarchive argument
NoArchive == [kind |-> "none", num |-> 0]

\* "%s-archive-%s.atom" % (slug, k)
ArchiveName(k) == [kind |-> "archive", num |-> k]

\* "%s.atom" % slug
MainName == [kind |-> "main", num |-> 0]

\* truth value of a prevarchive/nextarchive argument: None is false, every
\* formatted string is true
Truthy(ref) == ref.kind # "none"

\* write_file: the feed file it writes, with the archive links it emits
write_file(fileentries, name, prevarchive, nextarchive) ==
    [name    |-> name,
     entries |-> fileentries,
     prev    |-> IF Truthy(prevarchive) THEN prevarchive ELSE NoArchive,
     next    |-> IF Truthy(nextarchive) THEN nextarchive ELSE NoArchive]

\* faulty variant: while len(entries) > archivesize * 2
ChunkCond_strict(es, a) == Len(es) > a * 2

\* faulty variant: while len(entries) >= archivesize
ChunkCond_eager(es, a) == Len(es) >= a

\* while len(entries) >= archivesize * 2
ChunkCond(es, a) == Len(es) >= a * 2

\* faulty variant: entries[:archivesize], the chunk is taken from the head of the list
ArchiveEntries_head(es, a) ==
    IF a >= Len(es) THEN es ELSE SubSeq(es, 1, a)

\* entries[-archivesize:]
ArchiveEntries(es, a) ==
    IF a >= Len(es) THEN es ELSE SubSeq(es, Len(es) - a + 1, Len(es))

\* faulty variant: entries[:-archivesize - 1], the cut drops one entry more
\* than the chunk holds
RemainingEntries_dropone(es, a) ==
    IF a + 1 >= Len(es) THEN <<>> ELSE SubSeq(es, 1, Len(es) - a - 1)

\* faulty variant: entries[:-archivesize + 1], the cut keeps one entry too many
RemainingEntries_keepone(es, a) ==
    IF a - 1 >= Len(es) THEN <<>> ELSE SubSeq(es, 1, Len(es) - a + 1)

\* entries[:-archivesize]
RemainingEntries(es, a) ==
    IF a >= Len(es) THEN <<>> ELSE SubSeq(es, 1, Len(es) - a)

\* prev of the chunk numbered c
ChunkPrev(c) == IF c > 1 THEN ArchiveName(c - 1) ELSE NoArchive

\* faulty variant: if len(entries) < archivesize, the last chunk misses the main file
ChunkNext_short(rest, a, c) ==
    IF Len(rest) < a THEN MainName ELSE ArchiveName(c + 1)

\* next of the chunk numbered c, given the entries left after the cut
ChunkNext(rest, a, c) ==
    IF Len(rest) < a * 2 THEN MainName ELSE ArchiveName(c + 1)

\* prevarchive argument of the final write_file call
MainPrev(c) == ArchiveName(c)

\* the entry dicts of a feed of n entries, newest first
EntryList(n) == [i \in 1..n |-> [uri |-> n + 1 - i, updated |-> n + 1 - i]]

InitAtom ==
    /\ pc = "chunking"
    /\ \E n \in 0..MaxEntries : entries = EntryList(n)
    /\ archivesize \in 1..MaxArchive
    /\ cnt = 0
    /\ res = <<>>
    /\ written = <<>>
    /\ orig = entries
    /\ data = <<>>
    /\ facets = <<>>
    /\ pagesets = <<>>
    /\ pagecontent = <<>>
    /\ feedsets = <<>>
    /\ raised = NoException
    /\ OtherIdle

\* one iteration of the while loop
CutChunk ==
    /\ pc = "chunking"
    /\ ChunkCond(entries, archivesize)
    /\ LET c    == cnt + 1
           arch == ArchiveEntries(entries, archivesize)
           rest == RemainingEntries(entries, archivesize)
           f    == write_file(arch, ArchiveName(c), ChunkPrev(c),
                              ChunkNext(rest, archivesize, c))
       IN /\ cnt' = c
          /\ entries' = rest
          /\ written' = Append(written, f)
          /\ res' = Append(res, f.name)
    /\ UNCHANGED <<pc, archivesize, orig, facetvars, raised, othervars>>

\* loop exit: res.insert(0, write_file(entries, prevarchive=...))
WriteMain ==
    /\ pc = "chunking"
    /\ ~ChunkCond(entries, archivesize)
    /\ LET f == write_file(entries, MainName, MainPrev(cnt), NoArchive)
       IN /\ written' = Append(written, f)
          /\ res' = <<f.name>> \o res
    /\ pc' = "done"
    /\ UNCHANGED <<entries, archivesize, cnt, orig, facetvars, raised, othervars>>

NextAtom == CutChunk \/ WriteMain

SpecAtom == InitAtom /\ [][NextAtom]_vars

\* the call runs on: a step that can be taken is taken
SpecAtomLive == SpecAtom /\ WF_vars(NextAtom)

----------------------------------------------------------------------------
(* Strings: a Python str is a sequence of one-character strings *)

\* the characters that occur in the rows, in code point order
Alphabet ==
    <<" ", "!", "&", "-", "/",
      "0", "1", "2", "3", "4", "5", "6", "7", "8", "9", ":",
      "A", "B", "C", "D", "E", "F", "G", "H", "I", "J", "K", "L", "M",
      "N", "O", "P", "Q", "R", "S", "T", "U", "V", "W", "X", "Y", "Z",
      "a", "b", "c", "d", "e", "f", "g", "h", "i", "j", "k", "l", "m",
      "n", "o", "p", "q", "r", "s", "t", "u", "v", "w", "x", "y", "z">>

Ord(c) == CHOOSE i \in DOMAIN Alphabet : Alphabet[i] = c

Digits == {"0", "1", "2", "3", "4", "5", "6", "7", "8", "9"}
Uppers == {Alphabet[i] : i \in 17..42}
Lowers == {Alphabet[i] : i \in 43..68}

IsDigit(c) == c \in Digits
IsAlnum(c) == c \in Digits \cup Uppers \cup Lowers

DigitVal(c) == Ord(c) - Ord("0")

\* str.lower() on one character
LowerChar(c) == IF c \in Uppers THEN Alphabet[Ord(c) + 26] ELSE c

\* str.lower()
Lower(str) == [i \in DOMAIN str |-> LowerChar(str[i])]

\* str < str: lexicographic by code point, a proper prefix first
RECURSIVE StrLess(_, _)
StrLess(x, y) ==
    IF y = <<>> THEN FALSE
    ELSE IF x = <<>> THEN TRUE
    ELSE IF Head(x) # Head(y) THEN Ord(Head(x)) < Ord(Head(y))
    ELSE StrLess(Tail(x), Tail(y))

\* the decimal number written by the digits of str
RECURSIVE Number(_)
Number(str) ==
    IF str = <<>> THEN 0
    ELSE 10 * Number(SubSeq(str, 1, Len(str) - 1)) + DigitVal(str[Len(str)])

AllDigits(str) == \A i \in DOMAIN str : IsDigit(str[i])

\* str(n) for 1 <= n <= 9999
DigitChar(d) == Alphabet[Ord("0") + d]
RECURSIVE Decimal(_)
Decimal(n) ==
    IF n < 10 THEN <<DigitChar(n)>>
    ELSE Decimal(n \div 10) \o <<DigitChar(n % 10)>>

----------------------------------------------------------------------------
(* Python values: str, bool and None under one shape, so that any two can   *)
(* be compared                                                              *)

Str(chars) == [t |-> "str", s |-> chars, b |-> FALSE]
Bool(b) == [t |-> "bool", s |-> <<>>, b |-> b]
None == [t |-> "none", s |-> <<>>, b |-> FALSE]

\* x < y for two values of one type (False < True)
ValLess(x, y) ==
    IF x.t = "str" THEN StrLess(x.s, y.s)
    ELSE IF x.t = "bool" THEN (~x.b /\ y.b)
    ELSE FALSE

\* the outcome of a call: a returned value or a raised exception
Returned(v) == [exc |-> "none", val |-> v]
Raised(e) == [exc |-> e, val |-> None]

----------------------------------------------------------------------------
(* Rows: a dict from binding name to str; a binding may be absent *)

Has(row, binding) == binding \in DOMAIN row

----------------------------------------------------------------------------
(* facet.py: the function library *)

\* Facet.defaultselector: row[binding]
defaultselector(row, binding) ==
    IF Has(row, binding) THEN Returned(Str(row[binding])) ELSE Raised("KeyError")

IsLeap(y) == (y % 4 = 0 /\ y % 100 # 0) \/ y % 400 = 0

DaysIn(y, m) ==
    IF m = 2 THEN (IF IsLeap(y) THEN 29 ELSE 28)
    ELSE IF m \in {4, 6, 9, 11} THEN 30 ELSE 31

\* datetime.strptime(str, "%Y-%m") succeeds (7 characters)
ParsesYearMonth(str) ==
    /\ AllDigits(SubSeq(str, 1, 4)) /\ Number(SubSeq(str, 1, 4)) >= 1
    /\ str[5] = "-"
    /\ AllDigits(SubSeq(str, 6, 7)) /\ Number(SubSeq(str, 6, 7)) \in 1..12

\* datetime.strptime(str, "%Y-%m-%d") succeeds (10 characters)
ParsesDate(str) ==
    /\ ParsesYearMonth(SubSeq(str, 1, 7))
    /\ str[8] = "-"
    /\ AllDigits(SubSeq(str, 9, 10))
    /\ Number(SubSeq(str, 9, 10)) \in
           1..DaysIn(Number(SubSeq(str, 1, 4)), Number(SubSeq(str, 6, 7)))

\* datetime.strptime(str, "%Y-%m-%dT%H:%M:%S") succeeds (19 characters)
ParsesDateTime(str) ==
    /\ ParsesDate(SubSeq(str, 1, 10))
    /\ str[11] = "T"
    /\ AllDigits(SubSeq(str, 12, 13)) /\ Number(SubSeq(str, 12, 13)) <= 23
    /\ str[14] = ":"
    /\ AllDigits(SubSeq(str, 15, 16)) /\ Number(SubSeq(str, 15, 16)) <= 59
    /\ str[17] = ":"
    /\ AllDigits(SubSeq(str, 18, 19)) /\ Number(SubSeq(str, 18, 19)) <= 61

\* Facet.year: the format is looked up by len(datestring) (KeyError for any
\* other length), strptime raises ValueError, and str(d.year) is returned
year(row, binding) ==
    IF ~Has(row, binding) THEN Raised("KeyError")
    ELSE LET datestring == row[binding]
         IN IF Len(datestring) \notin {19, 10, 7} THEN Raised("KeyError")
            ELSE IF \/ Len(datestring) = 19 /\ ParsesDateTime(datestring)
                    \/ Len(datestring) = 10 /\ ParsesDate(datestring)
                    \/ Len(datestring) = 7 /\ ParsesYearMonth(datestring)
                 THEN Returned(Str(Decimal(Number(SubSeq(datestring, 1, 4)))))
                 ELSE Raised("ValueError")

\* the characters of "true"
TrueStr == <<"t", "r", "u", "e">>

\* Facet.booleanvalue: row[binding] == 'true'
booleanvalue(row, binding) ==
    IF Has(row, binding) THEN Returned(Bool(row[binding] = TrueStr))
    ELSE Raised("KeyError")

\* util.title_sortkey: lower-cased, non-alphanumerics stripped
RECURSIVE title_sortkey(_)
title_sortkey(str) ==
    IF str = <<>> THEN <<>>
    ELSE IF IsAlnum(Head(str))
         THEN <<LowerChar(Head(str))>> \o title_sortkey(Tail(str))
         ELSE title_sortkey(Tail(str))

\* the binding Facet.titlesortkey reads, whatever binding it is given
TitleBinding == "dcterms_title"

\* Facet.titlesortkey: util.title_sortkey(row['dcterms_title'])
titlesortkey(row, binding) ==
    IF Has(row, TitleBinding) THEN Returned(Str(title_sortkey(row[TitleBinding])))
    ELSE Raised("KeyError")

\* Facet.firstletter: cls.titlesortkey(row, binding)[0]
firstletter(row, binding) ==
    LET k == titlesortkey(row, binding)
    IN IF k.exc # "none" THEN k
       ELSE IF k.val.s = <<>> THEN Raised("IndexError")
       ELSE Returned(Str(<<k.val.s[1]>>))

\* self.commondata: the labels of the known resources, as triples
ResourceGraph ==
    {[s |-> <<"h", ":", "/", "a", "/", "p">>, p |-> "foaf:name", o |-> <<"A", "&", "P">>]}

\* the predicates Facet.resourcelabel tries, in its order
LabelPredicates ==
    <<"rdfs:label", "skos:prefLabel", "skos:altLabel", "dcterms:title",
      "dcterms:alternative", "foaf:name">>

\* resource_graph.value(uri, pred): an object of a matching triple, or None
GraphValue(uri, pred) ==
    LET os == {t.o : t \in {u \in ResourceGraph : u.s = uri /\ u.p = pred}}
    IN IF os = {} THEN None ELSE Str(CHOOSE o \in os : TRUE)

\* Facet.resourcelabel: the first label found for row[binding], else row[binding]
resourcelabel(row, binding) ==
    IF ~Has(row, binding) THEN Raised("KeyError")
    ELSE LET found == {i \in DOMAIN LabelPredicates :
                          GraphValue(row[binding], LabelPredicates[i]) # None}
         IN IF found = {} THEN Returned(Str(row[binding]))
            ELSE Returned(GraphValue(row[binding],
                     LabelPredicates[CHOOSE i \in found : \A j \in found : i <= j]))

\* util.uri_leaf: the final path segment of a resource identifier
RECURSIVE uri_leaf(_)
uri_leaf(str) ==
    IF str = <<>> THEN <<>>
    ELSE IF str[Len(str)] = "/" THEN <<>>
    ELSE uri_leaf(SubSeq(str, 1, Len(str) - 1)) \o <<str[Len(str)]>>

\* Facet.term: util.uri_leaf(row[binding])
term(row, binding) ==
    IF Has(row, binding) THEN Returned(Str(uri_leaf(row[binding])))
    ELSE Raised("KeyError")

\* Facet.sortresource: the sortable form of the label of row[binding]
sortresource(row, binding) ==
    LET label == resourcelabel(row, binding)
    IN IF label.exc # "none" THEN label
       ELSE Returned(Str(title_sortkey(label.val.s)))

\* Facet.sortresource: the row after row[binding] = cls.resourcelabel(...)
sortresource_row(row, binding) ==
    LET label == resourcelabel(row, binding)
    IN IF label.exc # "none" THEN row
       ELSE [row EXCEPT ![binding] = label.val.s]

\* the namespaces bound in resource_graph, with their prefixes
Namespaces == (<<"h", ":", "/", "a", "/">> :> <<"a">>)

\* the uri without its final path segment
UriNamespace(str) == SubSeq(str, 1, Len(str) - Len(uri_leaf(str)))

\* Facet.qname: resource_graph.qname(URIRef(row[binding])): prefix ":" name;
\* a namespace that is not bound gets the generated prefix ns1, and a uri
\* without a name part cannot be split
qname(row, binding) ==
    IF ~Has(row, binding) THEN Raised("KeyError")
    ELSE IF uri_leaf(row[binding]) = <<>> THEN Raised("ValueError")
    ELSE IF UriNamespace(row[binding]) \in DOMAIN Namespaces
         THEN Returned(Str(Namespaces[UriNamespace(row[binding])] \o <<":">> \o
                           uri_leaf(row[binding])))
         ELSE Returned(Str(<<"n", "s", "1", ":">> \o uri_leaf(row[binding])))

\* the lambdas of the catch-all facet of news_select_for_feeds
allselector(row, binding) == Returned(None)

updatedkey(row, binding) ==
    IF Has(row, "updated") THEN Returned(Str(row["updated"])) ELSE Raised("KeyError")

\* selector(row, binding, resource_graph) for the function named fn
Apply(fn, row, binding) ==
    CASE fn = "defaultselector" -> defaultselector(row, binding)
      [] fn = "year"            -> year(row, binding)
      [] fn = "booleanvalue"    -> booleanvalue(row, binding)
      [] fn = "titlesortkey"    -> titlesortkey(row, binding)
      [] fn = "firstletter"     -> firstletter(row, binding)
      [] fn = "resourcelabel"   -> resourcelabel(row, binding)
      [] fn = "sortresource"    -> sortresource(row, binding)
      [] fn = "term"            -> term(row, binding)
      [] fn = "qname"           -> qname(row, binding)
      [] fn = "allselector"     -> allselector(row, binding)
      [] fn = "updatedkey"      -> updatedkey(row, binding)

\* the row after the call of the function named fn: sortresource assigns to
\* row[binding], the other functions only read the row
RowAfter(fn, row, binding) ==
    IF fn = "sortresource" THEN sortresource_row(row, binding) ELSE row

----------------------------------------------------------------------------
(* facet.py: Facet.__init__ and Facet.defaults *)

\* Facet.defaults: for each rdftype, the arguments it has a default for
FacetDefaults ==
    ("rdf:type" :>
        [indexingtype |-> "URI", toplevel_only |-> FALSE, use_for_toc |-> FALSE,
         selector |-> "qname", identificator |-> "term",
         dimension_type |-> "term"]) @@
    ("dcterms:title" :>
        [indexingtype |-> "Text(boost=4)", toplevel_only |-> FALSE,
         use_for_toc |-> TRUE, selector |-> "firstletter",
         key |-> "titlesortkey", identificator |-> "firstletter",
         dimension_type |-> "value",
         pagetitle |-> "Documents starting with \"%(selected)s\""]) @@
    ("dcterms:identifier" :>
        [indexingtype |-> "Label(boost=16)", toplevel_only |-> FALSE,
         use_for_toc |-> TRUE, selector |-> "firstletter",
         key |-> "titlesortkey", identificator |-> "firstletter"]) @@
    ("dcterms:abstract" :>
        [indexingtype |-> "Text(boost=2)", toplevel_only |-> TRUE,
         use_for_toc |-> FALSE]) @@
    ("dc:creator" :>
        [indexingtype |-> "Label", toplevel_only |-> TRUE, use_for_toc |-> TRUE,
         selector |-> "defaultselector", key |-> "titlesortkey",
         dimension_type |-> "value"]) @@
    ("dcterms:publisher" :>
        [indexingtype |-> "Resource", toplevel_only |-> TRUE,
         use_for_toc |-> TRUE, selector |-> "resourcelabel",
         key |-> "resourcelabel", identificator |-> "term",
         dimension_type |-> "ref"]) @@
    ("dcterms:references" :>
        [indexingtype |-> "URI", use_for_toc |-> FALSE]) @@
    ("dcterms:issued" :>
        [label |-> "Sorted by publication year",
         pagetitle |-> "Documents published in %(selected)s",
         indexingtype |-> "Datetime", toplevel_only |-> TRUE,
         use_for_toc |-> TRUE, selector |-> "year",
         key |-> "defaultselector", identificator |-> "year",
         selector_descending |-> FALSE, key_descending |-> FALSE,
         dimension_type |-> "year"]) @@
    ("dc:subject" :>
        [indexingtype |-> "Keyword", multiple_values |-> TRUE,
         toplevel_only |-> TRUE, use_for_toc |-> TRUE,
         selector |-> "defaultselector", key |-> "defaultselector",
         dimension_type |-> "value"]) @@
    ("dcterms:subject" :>
        [indexingtype |-> "Resource", multiple_values |-> TRUE,
         toplevel_only |-> TRUE, use_for_toc |-> TRUE,
         selector |-> "resourcelabel", key |-> "resourcelabel",
         identificator |-> "term", dimension_type |-> "value"]) @@
    ("schema:free" :>
        [indexingtype |-> "Boolean", toplevel_only |-> TRUE,
         use_for_toc |-> TRUE, selector |-> "booleanvalue",
         key |-> "defaultselector", dimension_type |-> "value"])

\* Facet.__init__._finddefault; args holds the arguments passed (not None)
FindDefault(args, rdftype, argumenttype, default) ==
    IF argumenttype \notin DOMAIN args
    THEN IF /\ rdftype \in DOMAIN FacetDefaults
            /\ argumenttype \in DOMAIN FacetDefaults[rdftype]
         THEN FacetDefaults[rdftype][argumenttype]
         ELSE default
    ELSE args[argumenttype]

\* Facet(rdftype, **args): the attributes __init__ sets; it sets no
\* use_for_feed attribute
Facet(rdftype, args) ==
    [rdftype             |-> rdftype,
     label               |-> FindDefault(args, rdftype, "label", "Sorted by %(term)s"),
     pagetitle           |-> FindDefault(args, rdftype, "pagetitle",
                                 "Documents where %(term)s = %(selected)s"),
     indexingtype        |-> FindDefault(args, rdftype, "indexingtype", "Text"),
     selector            |-> FindDefault(args, rdftype, "selector", "defaultselector"),
     key                 |-> FindDefault(args, rdftype, "key", "defaultselector"),
     identificator       |-> FindDefault(args, rdftype, "identificator", "defaultselector"),
     toplevel_only       |-> FindDefault(args, rdftype, "toplevel_only", FALSE),
     use_for_toc         |-> FindDefault(args, rdftype, "use_for_toc", FALSE),
     selector_descending |-> FindDefault(args, rdftype, "selector_descending", FALSE),
     key_descending      |-> FindDefault(args, rdftype, "key_descending", FALSE),
     multiple_values     |-> FindDefault(args, rdftype, "multiple_values", FALSE),
     dimension_type      |-> FindDefault(args, rdftype, "dimension_type", "None"),
     dimension_label     |-> IF "dimension_label" \in DOMAIN args
                             THEN args["dimension_label"] ELSE "None"]

\* no keyword argument passed
NoArgs == <<>>

\* facet.use_for_feed = flag, assigned by the caller after construction
WithFeedFlag(facet, flag) == ("use_for_feed" :> flag) @@ facet

\* qname_graph.qname(rdftype).replace(":", "_")
QnameBinding ==
    ("rdf:type" :> "rdf_type") @@ ("dcterms:title" :> "dcterms_title") @@
    ("dcterms:identifier" :> "dcterms_identifier") @@
    ("dcterms:abstract" :> "dcterms_abstract") @@ ("dc:creator" :> "dc_creator") @@
    ("dcterms:publisher" :> "dcterms_publisher") @@
    ("dcterms:references" :> "dcterms_references") @@
    ("dcterms:issued" :> "dcterms_issued") @@ ("dc:subject" :> "dc_subject") @@
    ("dcterms:subject" :> "dcterms_subject") @@ ("schema:free" :> "schema_free") @@
    ("rdfs:Resource" :> "rdfs_Resource")

\* util.uri_leaf(rdftype)
RdftypeLeaf ==
    ("rdf:type" :> "type") @@ ("dcterms:title" :> "title") @@
    ("dcterms:identifier" :> "identifier") @@
    ("dcterms:abstract" :> "abstract") @@ ("dc:creator" :> "creator") @@
    ("dcterms:publisher" :> "publisher") @@
    ("dcterms:references" :> "references") @@
    ("dcterms:issued" :> "issued") @@ ("dc:subject" :> "subject") @@
    ("dcterms:subject" :> "subject") @@ ("schema:free" :> "free") @@
    ("rdfs:Resource" :> "Resource")

\* binding of a facet: its dimension_label if set, else from its rdftype
FacetBinding(facet) ==
    IF facet.dimension_label # "None" THEN facet.dimension_label
    ELSE QnameBinding[facet.rdftype]

\* term of a facet
FacetTerm(facet) ==
    IF facet.dimension_label # "None" THEN facet.dimension_label
    ELSE RdftypeLeaf[facet.rdftype]

----------------------------------------------------------------------------
(* sorted(), dicts *)

\* sorted(values): the values of a set in ascending order
RECURSIVE SortedValues(_)
SortedValues(S) ==
    IF S = {} THEN <<>>
    ELSE LET m == CHOOSE x \in S : \A y \in S : ~ValLess(y, x)
         IN <<m>> \o SortedValues(S \ {m})

Reversed(seq) == [i \in 1..Len(seq) |-> seq[Len(seq) + 1 - i]]

\* faulty variant: sorted(list(d.keys())), the reverse argument is dropped
SortedKeys_ascending(S, descending) == SortedValues(S)

\* sorted(list(d.keys()), reverse=descending)
SortedKeys(S, descending) ==
    IF descending THEN Reversed(SortedValues(S)) ELSE SortedValues(S)

\* insert the pair x behind every pair it is not smaller than
RECURSIVE InsertByKey(_, _, _)
InsertByKey(sorted, x, descending) ==
    IF sorted = <<>> THEN <<x>>
    ELSE IF (IF descending THEN ValLess(Head(sorted).k, x.k)
                           ELSE ValLess(x.k, Head(sorted).k))
         THEN <<x>> \o sorted
         ELSE <<Head(sorted)>> \o InsertByKey(Tail(sorted), x, descending)

\* sorted(pairs, key=..., reverse=descending): stable in both directions
RECURSIVE StableSort(_, _)
StableSort(pairs, descending) ==
    IF pairs = <<>> THEN <<>>
    ELSE InsertByKey(StableSort(SubSeq(pairs, 1, Len(pairs) - 1), descending),
                     pairs[Len(pairs)], descending)

\* d[k] = v
DictSet(d, k, v) == [x \in DOMAIN d \cup {k} |-> IF x = k THEN v ELSE d[x]]

EmptyDict == <<>>

----------------------------------------------------------------------------
(* Loops *)

\* for item in seq: acc = Body(acc, item); each acc is computed once
RECURSIVE ForEach(_, _, _)
ForEach(Body(_, _), acc, seq) ==
    IF seq = <<>> THEN acc
    ELSE CHOOSE r \in {ForEach(Body, a, Tail(seq)) : a \in {Body(acc, Head(seq))}} : TRUE

----------------------------------------------------------------------------
(* documentrepository.py: toc_pagesets *)

\* the positions of a list, in order
Positions(seq) == [i \in DOMAIN seq |-> i]

\* the body of the loop over the rows, for the row at position i:
\* selector_values and selector_fragments after one more row, and the rows
\* as the calls leave them; a KeyError skips the rest of the body, any other
\* exception ends the loop
SelectRow(acc, i, facet, binding) ==
    LET selected == Apply(facet.selector, acc.rows[i], binding)
        row1 == RowAfter(facet.selector, acc.rows[i], binding)
        fragment == Apply(facet.identificator, row1, binding)
        row2 == RowAfter(facet.identificator, row1, binding)
    IN IF acc.exc # "none" THEN acc
       ELSE IF selected.exc = "KeyError" THEN [acc EXCEPT !.rows[i] = row1]
       ELSE IF selected.exc # "none"
            THEN [acc EXCEPT !.exc = selected.exc, !.rows[i] = row1]
       ELSE IF fragment.exc = "KeyError"
            THEN [acc EXCEPT !.values = @ \cup {selected.val}, !.rows[i] = row2]
       ELSE IF fragment.exc # "none"
            THEN [acc EXCEPT !.exc = fragment.exc, !.rows[i] = row2]
       ELSE [exc |-> "none",
             values |-> acc.values \cup {selected.val},
             fragments |-> DictSet(acc.fragments, selected.val, fragment.val),
             rows |-> [acc.rows EXCEPT ![i] = row2]]

\* the loop over the rows
SelectRows(rows, facet, binding) ==
    LET Body(acc, i) == SelectRow(acc, i, facet, binding)
    IN ForEach(Body,
               [exc |-> "none", values |-> {}, fragments |-> EmptyDict, rows |-> rows],
               Positions(rows))

\* TocPage(linktext, title, binding, value)
TocPage(linktext, title, binding, value) ==
    [linktext |-> linktext, title |-> title, binding |-> binding, value |-> value]

\* the pages of one facet, one per selector value in sorted order
FacetPages(sel, facet, binding) ==
    LET ordered == SortedKeys(sel.values, facet.selector_descending)
    IN [i \in 1..Len(ordered) |->
           TocPage(ordered[i],
                   <<facet.pagetitle, FacetTerm(facet), ordered[i]>>,
                   binding,
                   sel.fragments[ordered[i]])]

\* the pageset of one facet, or the exception raised while building it, and
\* the rows as the build leaves them
FacetPageset(rows, facet) ==
    LET binding == FacetBinding(facet)
    IN CHOOSE r \in
           {IF sel.exc # "none" THEN [exc |-> sel.exc, val |-> None, rows |-> sel.rows]
            ELSE IF \E v \in sel.values : v \notin DOMAIN sel.fragments
                 THEN [exc |-> "KeyError", val |-> None, rows |-> sel.rows]
            ELSE [exc |-> "none",
                  val |-> [label |-> <<facet.label, FacetTerm(facet)>>,
                           predicate |-> facet.rdftype,
                           pages |-> FacetPages(sel, facet, binding)],
                  rows |-> sel.rows]
              : sel \in {SelectRows(rows, facet, binding)}} : TRUE

\* the body of the loop over the facets
PagesetOfFacet(acc, facet) ==
    IF acc.exc # "none" THEN acc
    ELSE IF ~facet.use_for_toc THEN acc
    ELSE CHOOSE r \in
             {IF ps.exc # "none" THEN [exc |-> ps.exc, val |-> <<>>, rows |-> ps.rows]
              ELSE [exc |-> "none", val |-> Append(acc.val, ps.val), rows |-> ps.rows]
                : ps \in {FacetPageset(acc.rows, facet)}} : TRUE

\* toc_pagesets(data, facets): the pagesets returned or the exception
\* raised, and the rows of data after the call
toc_pagesets(rows, fs) ==
    ForEach(PagesetOfFacet, [exc |-> "none", val |-> <<>>, rows |-> rows], fs)

----------------------------------------------------------------------------
(* documentrepository.py: toc_select_for_pages *)

\* toc_item: a link with the row's title as text
toc_item(binding, row) ==
    IF Has(row, "dcterms_title") /\ Has(row, "uri")
    THEN Returned([text |-> row["dcterms_title"], uri |-> row["uri"]])
    ELSE Raised("KeyError")

\* the body of the loop that fills documents = defaultdict(list), for the
\* row at position i: the keys in the order they were first inserted, the
\* positions of the rows of each key, and the rows as the calls leave them
GroupRow(acc, i, fn, binding) ==
    LET key == Apply(fn, acc.rows[i], binding)
        after == RowAfter(fn, acc.rows[i], binding)
    IN IF acc.exc # "none" THEN acc
       ELSE IF key.exc = "KeyError" THEN [acc EXCEPT !.rows[i] = after]
       ELSE IF key.exc # "none" THEN [acc EXCEPT !.exc = key.exc, !.rows[i] = after]
       ELSE IF key.val \in DOMAIN acc.members
            THEN [acc EXCEPT !.members[key.val] = Append(@, i), !.rows[i] = after]
       ELSE [exc |-> "none",
             keys |-> Append(acc.keys, key.val),
             members |-> DictSet(acc.members, key.val, <<i>>),
             rows |-> [acc.rows EXCEPT ![i] = after]]

\* the loop over the rows
GroupRows(rows, fn, binding) ==
    LET Body(acc, i) == GroupRow(acc, i, fn, binding)
    IN ForEach(Body,
               [exc |-> "none", keys |-> <<>>, members |-> EmptyDict, rows |-> rows],
               Positions(rows))

\* sorted() calls the key function on the rows of the bucket in list order:
\* the keys so far, paired with the positions of their rows
KeyRow(acc, i, facet, binding) ==
    LET key == Apply(facet.key, acc.rows[i], binding)
        after == RowAfter(facet.key, acc.rows[i], binding)
    IN IF acc.exc # "none" THEN acc
       ELSE IF key.exc # "none" THEN [acc EXCEPT !.exc = key.exc, !.rows[i] = after]
       ELSE [exc |-> "none",
             keyed |-> Append(acc.keyed, [k |-> key.val, row |-> i]),
             rows |-> [acc.rows EXCEPT ![i] = after]]

\* the rows of a bucket paired with their sort keys
KeyedRows(rows, members, facet, binding) ==
    LET Body(acc, i) == KeyRow(acc, i, facet, binding)
    IN ForEach(Body, [exc |-> "none", keyed |-> <<>>, rows |-> rows], members)

\* faulty variant: sorted(documents[key], key=keyfunc), key_descending is not
\* passed on
SortBucket_ascending(rows, members, facet, binding) ==
    CHOOSE r \in
        {IF kr.exc # "none" THEN [exc |-> kr.exc, val |-> <<>>, rows |-> kr.rows]
         ELSE LET s == StableSort(kr.keyed, FALSE)
              IN [exc |-> "none", val |-> [i \in DOMAIN s |-> s[i].row],
                  rows |-> kr.rows]
           : kr \in {KeyedRows(rows, members, facet, binding)}} : TRUE

\* sorted(documents[key], key=keyfunc, reverse=facet.key_descending): the
\* positions of the rows of the bucket in sorted order
SortBucket(rows, members, facet, binding) ==
    CHOOSE r \in
        {IF kr.exc # "none" THEN [exc |-> kr.exc, val |-> <<>>, rows |-> kr.rows]
         ELSE LET s == StableSort(kr.keyed, facet.key_descending)
              IN [exc |-> "none", val |-> [i \in DOMAIN s |-> s[i].row],
                  rows |-> kr.rows]
           : kr \in {KeyedRows(rows, members, facet, binding)}} : TRUE

\* [self.toc_item(binding, row) for row in s]
TocItems(rows, binding) ==
    LET items == [i \in DOMAIN rows |-> toc_item(binding, rows[i])]
    IN IF \E i \in DOMAIN items : items[i].exc # "none"
       THEN Raised("KeyError")
       ELSE [exc |-> "none", val |-> [i \in DOMAIN items |-> items[i].val]]

\* the sorted, formatted bucket
BucketItems(rows, members, facet, binding) ==
    CHOOSE r \in
        {IF s.exc # "none" THEN s
         ELSE [exc  |-> TocItems([i \in DOMAIN s.val |-> s.rows[s.val[i]]], binding).exc,
               val  |-> TocItems([i \in DOMAIN s.val |-> s.rows[s.val[i]]], binding).val,
               rows |-> s.rows]
           : s \in {SortBucket(rows, members, facet, binding)}} : TRUE

\* the body of the inner loop: for page in pageset.pages:
\*     if page.linktext == key: res[(page.binding, page.value)] = ...
StorePage(result, page, key, members, ctx) ==
    IF result.exc # "none" THEN result
    ELSE IF page.linktext # key THEN result
    ELSE CHOOSE r \in
             {IF items.exc # "none"
              THEN [exc |-> items.exc, val |-> result.val, rows |-> items.rows]
              ELSE [exc |-> "none",
                    val |-> DictSet(result.val, <<page.binding, page.value>>,
                                    items.val),
                    rows |-> items.rows]
                : items \in {BucketItems(result.rows, members, ctx.facet,
                                         ctx.binding)}} : TRUE

\* the body of the loop over documents.keys()
StoreBucket(result, key, documents, ctx) ==
    LET Body(acc, page) == StorePage(acc, page, key, documents.members[key], ctx)
    IN ForEach(Body, result, ctx.pageset.pages)

\* [f for f in facets if f.use_for_toc]
TocFacets(fs) == SelectSeq(fs, LAMBDA f : f.use_for_toc)

\* zip(a, b)
Zip(a, b) ==
    [i \in 1..(IF Len(a) <= Len(b) THEN Len(a) ELSE Len(b)) |-> <<a[i], b[i]>>]

\* the body of the loop over zip(pagesets, facets)
SelectForPageset(result, pair) ==
    LET facet == pair[2]
        binding == FacetBinding(facet)
        ctx == [facet |-> facet, binding |-> binding, pageset |-> pair[1]]
    IN IF result.exc # "none" THEN result
       ELSE CHOOSE r \in
                {IF documents.exc # "none"
                 THEN [exc |-> documents.exc, val |-> result.val,
                       rows |-> documents.rows]
                 ELSE LET Body(acc, key) == StoreBucket(acc, key, documents, ctx)
                      IN ForEach(Body, [result EXCEPT !.rows = documents.rows],
                                 documents.keys)
                   : documents \in {GroupRows(result.rows, facet.selector, binding)}}
                : TRUE

\* toc_select_for_pages(data, pagesets, facets): the dict returned or the
\* exception raised, and the rows of data after the call
toc_select_for_pages(rows, psets, fs) ==
    ForEach(SelectForPageset, [exc |-> "none", val |-> EmptyDict, rows |-> rows],
            Zip(psets, TocFacets(fs)))

----------------------------------------------------------------------------
(* The rows and facet lists the TOC is built from *)

RowAbc ==
    [uri |-> <<"u", "1">>, dcterms_title |-> <<"A", "b", "c">>,
     dcterms_issued |-> <<"2", "0", "0", "9", "-", "0", "4">>,
     dcterms_publisher |-> <<"h", ":", "/", "a", "/", "p">>]

RowAbcd ==
    [uri |-> <<"u", "2">>, dcterms_title |-> <<"A", "b", "c", "d">>,
     dcterms_issued |-> <<"2", "0", "1", "0", "-", "0", "6">>,
     dcterms_publisher |-> <<"h", ":", "/", "b", "/", "p">>]

RowDfg ==
    [uri |-> <<"u", "3">>, dcterms_title |-> <<"D", "f", "g">>,
     dcterms_issued |-> <<"2", "0", "1", "0", "-", "0", "8">>]

\* a title without a sortable character and a month that is no month
RowOdd ==
    [uri |-> <<"u", "4">>, dcterms_title |-> <<"!">>,
     dcterms_issued |-> <<"2", "0", "1", "0", "-", "1", "3">>]

\* no title, and a date of no accepted length
RowBare ==
    [uri |-> <<"u", "5">>, dcterms_issued |-> <<"2", "0", "1">>]

\* same title as RowAbc, no date
RowTwin ==
    [uri |-> <<"u", "6">>, dcterms_title |-> <<"a", "b", "c">>,
     dcterms_publisher |-> <<"h", ":", "/", "a", "/", "q">>]

\* a date, no title
RowUntitled ==
    [uri |-> <<"u", "7">>, dcterms_issued |-> <<"2", "0", "0", "9", "-", "1", "1">>]

RowUniverse == {RowAbc, RowAbcd, RowDfg, RowOdd, RowBare, RowTwin, RowUntitled}

\* the lists of at most n different elements of S
ListsUpTo(S, n) ==
    UNION {{f \in [1..k -> S] : \A i, j \in 1..k : i # j => f[i] # f[j]} : k \in 0..n}

\* DocumentRepository.facets(): the default facet list
DefaultFacets ==
    <<Facet("rdf:type", NoArgs), Facet("dcterms:title", NoArgs),
      Facet("dcterms:publisher", NoArgs), Facet("dcterms:identifier", NoArgs),
      Facet("dcterms:issued", NoArgs)>>

TocFacetLists ==
    {DefaultFacets,
     <<Facet("dcterms:title", NoArgs), Facet("dcterms:issued", NoArgs)>>,
     <<Facet("dcterms:issued", [selector |-> "defaultselector"])>>,
     <<Facet("dcterms:issued", [selector_descending |-> TRUE, key_descending |-> TRUE]),
       Facet("dcterms:title", [key_descending |-> TRUE])>>,
     <<Facet("dcterms:abstract", NoArgs)>>,
     <<Facet("dcterms:publisher", [key |-> "sortresource"]),
       Facet("dcterms:title", NoArgs)>>,
     <<Facet("dcterms:title", [identificator |-> "defaultselector"])>>}

----------------------------------------------------------------------------
(* SpecToc: toc_pagesets, then toc_select_for_pages, on one row list *)

InitToc ==
    /\ pc = "toc_pagesets"
    /\ data \in ListsUpTo(RowUniverse, MaxRows)
    /\ facets \in TocFacetLists
    /\ pagesets = <<>>
    /\ pagecontent = EmptyDict
    /\ feedsets = <<>>
    /\ raised = NoException
    /\ entries = <<>>
    /\ archivesize = 1
    /\ cnt = 0
    /\ res = <<>>
    /\ written = <<>>
    /\ orig = <<>>
    /\ OtherIdle

\* pagesets = self.toc_pagesets(data, facets)
TocPagesets ==
    /\ pc = "toc_pagesets"
    /\ LET r == toc_pagesets(data, facets)
       IN /\ data' = r.rows
          /\ IF r.exc = "none"
             THEN /\ pagesets' = r.val
                  /\ pc' = "toc_select_for_pages"
                  /\ UNCHANGED raised
             ELSE /\ raised' = [call |-> "toc_pagesets", exc |-> r.exc]
                  /\ pc' = "raised"
                  /\ UNCHANGED pagesets
    /\ UNCHANGED <<facets, pagecontent, feedsets, atomvars, othervars>>

\* pagecontent = self.toc_select_for_pages(data, pagesets, facets)
TocSelectForPages ==
    /\ pc = "toc_select_for_pages"
    /\ LET r == toc_select_for_pages(data, pagesets, facets)
       IN /\ data' = r.rows
          /\ IF r.exc = "none"
             THEN /\ pagecontent' = r.val
                  /\ pc' = "toc_done"
                  /\ UNCHANGED raised
             ELSE /\ raised' = [call |-> "toc_select_for_pages", exc |-> r.exc]
                  /\ pc' = "raised"
                  /\ UNCHANGED pagecontent
    /\ UNCHANGED <<facets, pagesets, feedsets, atomvars, othervars>>

NextToc == TocPagesets \/ TocSelectForPages

SpecToc == InitToc /\ [][NextToc]_vars

----------------------------------------------------------------------------
(* documentrepository.py: toc_generate_first_page *)

\* firstpage = pagesets[0].pages[0]
\* documents = pagecontent[(firstpage.binding, firstpage.value)]
\* toc_generate_page(firstpage.binding, firstpage.value, documents, pagesets, "index")
toc_generate_first_page(content, psets) ==
    IF psets = <<>> THEN Raised("IndexError")
    ELSE IF psets[1].pages = <<>> THEN Raised("IndexError")
    ELSE LET firstpage == psets[1].pages[1]
             k == <<firstpage.binding, firstpage.value>>
         IN  IF k \notin DOMAIN content THEN Raised("KeyError")
             ELSE [exc |-> "none",
                   val |-> [binding |-> firstpage.binding, value |-> firstpage.value,
                            documentlist |-> content[k],
                            effective_basefile |-> "index"]]

----------------------------------------------------------------------------
(* SpecLanding: toc() on a non-empty row list: toc_pagesets,                *)
(* toc_select_for_pages, then toc_generate_first_page                       *)

\* if len(data) > 0
InitLanding == InitToc /\ data # <<>>

\* self.toc_generate_first_page(pagecontent, pagesets, otherrepos)
TocGenerateFirstPage ==
    /\ pc = "toc_done"
    /\ LET r == toc_generate_first_page(pagecontent, pagesets)
       IN  IF r.exc = "none"
           THEN /\ callret' = r.val
                /\ pc' = "toc_generated"
                /\ UNCHANGED raised
           ELSE /\ raised' = [call |-> "toc_generate_first_page", exc |-> r.exc]
                /\ pc' = "raised"
                /\ UNCHANGED callret
    /\ UNCHANGED <<callargs, facetvars, atomvars, sourcevars, firstrun, storevars>>

NextLanding == TocPagesets \/ TocSelectForPages \/ TocGenerateFirstPage

SpecLanding == InitLanding /\ [][NextLanding]_vars

----------------------------------------------------------------------------
(* SpecRerun: toc_pagesets and toc_select_for_pages, called a second time   *)
(* on the same list of rows and the same facets                             *)

InitRerun == InitToc

\* the results are kept for comparison and the two calls are made again,
\* on data as the first run left it
Rerun ==
    /\ pc = "toc_done"
    /\ ~firstrun.ran
    /\ firstrun' = [ran |-> TRUE, pagesets |-> pagesets, pagecontent |-> pagecontent]
    /\ pagesets' = <<>>
    /\ pagecontent' = EmptyDict
    /\ pc' = "toc_pagesets"
    /\ UNCHANGED <<data, facets, feedsets, raised, atomvars, sourcevars, callvars, storevars>>

NextRerun == TocPagesets \/ TocSelectForPages \/ Rerun

SpecRerun == InitRerun /\ [][NextRerun]_vars

----------------------------------------------------------------------------
(* SpecLibrary: one call of a function of the Facet function library *)

LibraryFunctions ==
    {"defaultselector", "year", "booleanvalue", "titlesortkey", "firstletter",
     "resourcelabel", "sortresource", "term", "qname"}

\* a row with a type and the free flag
RowTyped ==
    [uri |-> <<"u", "8">>, rdf_type |-> <<"h", ":", "/", "a", "/", "B", "o", "o", "k">>,
     schema_free |-> <<"t", "r", "u", "e">>,
     dcterms_publisher |-> <<"h", ":", "/", "a", "/", "p">>]

\* a row with an identifier
RowIdentified ==
    [uri |-> <<"u", "9">>, dcterms_title |-> <<"A", "b", "c">>,
     dcterms_identifier |-> <<"X", " ", "1">>]

LibraryBindings ==
    {"dcterms_title", "dcterms_issued", "dcterms_publisher", "rdf_type",
     "schema_free", "dcterms_identifier"}

InitLibrary ==
    /\ pc = "call"
    /\ callargs \in [fn : LibraryFunctions,
                     row : RowUniverse \cup {RowTyped, RowIdentified},
                     binding : LibraryBindings]
    /\ callret = <<>>
    /\ raised = NoException
    /\ AtomIdle
    /\ FacetIdle
    /\ SourceIdle
    /\ RunIdle
    /\ StoreIdle

\* fn(row, binding, resource_graph)
CallFunction ==
    /\ pc = "call"
    /\ callret' = [outcome |-> Apply(callargs.fn, callargs.row, callargs.binding),
                   row |-> RowAfter(callargs.fn, callargs.row, callargs.binding)]
    /\ pc' = "called"
    /\ UNCHANGED <<callargs, raised, atomvars, facetvars, sourcevars, firstrun, storevars>>

NextLibrary == CallFunction

SpecLibrary == InitLibrary /\ [][NextLibrary]_vars

----------------------------------------------------------------------------
(* documentrepository.py: news_feedsets *)

\* Feed(slug, title, binding, value): a feed without entries
Feed(slug, title, binding, value) ==
    [slug |-> slug, title |-> title, binding |-> binding, value |-> value,
     entries |-> <<>>]

\* reading facet.use_for_feed: the attribute exists only if it was assigned
HasFeedFlag(facet) == "use_for_feed" \in DOMAIN facet

\* the feeds of one facet, one per selector value in sorted order; the slug
\* is term + "/" + urlfragment.lower()
FacetFeeds(sel, facet, binding) ==
    LET ordered == SortedKeys(sel.values, facet.selector_descending)
    IN [i \in 1..Len(ordered) |->
           Feed(<<FacetTerm(facet), Lower(sel.fragments[ordered[i]].s)>>,
                <<facet.pagetitle, FacetTerm(facet), ordered[i]>>,
                binding,
                sel.fragments[ordered[i]])]

\* the feedset of one facet, or the exception raised while building it, and
\* the rows as the build leaves them
FacetFeedset(rows, facet) ==
    LET binding == FacetBinding(facet)
    IN CHOOSE r \in
           {IF sel.exc # "none" THEN [exc |-> sel.exc, val |-> None, rows |-> sel.rows]
            ELSE IF \E v \in sel.values : v \notin DOMAIN sel.fragments
                 THEN [exc |-> "KeyError", val |-> None, rows |-> sel.rows]
            ELSE IF \E v \in sel.values : sel.fragments[v].t # "str"
                 THEN [exc |-> "AttributeError", val |-> None, rows |-> sel.rows]
            ELSE [exc |-> "none",
                  val |-> [label |-> <<facet.label, FacetTerm(facet)>>,
                           predicate |-> facet.rdftype,
                           feeds |-> FacetFeeds(sel, facet, binding)],
                  rows |-> sel.rows]
              : sel \in {SelectRows(rows, facet, binding)}} : TRUE

\* the body of the loop over the facets
FeedsetOfFacet(acc, facet) ==
    IF acc.exc # "none" THEN acc
    ELSE IF ~HasFeedFlag(facet) THEN [acc EXCEPT !.exc = "AttributeError", !.val = <<>>]
    ELSE IF ~facet.use_for_feed THEN acc
    ELSE CHOOSE r \in
             {IF fs.exc # "none" THEN [exc |-> fs.exc, val |-> <<>>, rows |-> fs.rows]
              ELSE [exc |-> "none", val |-> Append(acc.val, fs.val), rows |-> fs.rows]
                : fs \in {FacetFeedset(acc.rows, facet)}} : TRUE

\* the built-in All feedset, which has only one feed
AllFeedset ==
    [label |-> <<"All">>,
     predicate |-> "None",
     feeds |-> <<Feed(<<"main">>, <<"All documents">>, "None", None)>>]

\* news_feedsets(data, facets): the feedsets returned or the exception
\* raised, and the rows of data after the call
news_feedsets(rows, fs) ==
    CHOOSE r \in
        {IF built.exc # "none" THEN built
         ELSE [built EXCEPT !.val = Append(@, AllFeedset)]
           : built \in {ForEach(FeedsetOfFacet,
                                [exc |-> "none", val |-> <<>>, rows |-> rows], fs)}}
        : TRUE

----------------------------------------------------------------------------
(* documentrepository.py: news_select_for_feeds *)

\* the facet faked for the last feedset: it accepts every row, puts all in
\* one bucket and sorts by 'updated'
CatchAllFacet ==
    Facet("rdfs:Resource",
          [identificator |-> "allselector", selector |-> "allselector",
           key |-> "updatedkey"])

\* [f for f in facets if f.use_for_feed], or the AttributeError of the read
FeedFacets(fs) ==
    IF \E i \in DOMAIN fs : ~HasFeedFlag(fs[i]) THEN Raised("AttributeError")
    ELSE [exc |-> "none", val |-> SelectSeq(fs, LAMBDA f : f.use_for_feed)]

\* if len(facets) < len(feedsets): facets.append(Facet(...))
WithCatchAll(fs, fsets) ==
    IF Len(fs) < Len(fsets) THEN Append(fs, CatchAllFacet) ELSE fs

\* news_item: the entry, unchanged
news_item(binding, entry) == entry

\* sorted(documents[key], ...) of a bucket of entries
SortedEntries(rows, members, facet, binding) ==
    SortBucket(rows, members, facet, binding)

\* the body of the inner loop: for feed in feedset.feeds:
\*     if feed.value == key: feed.entries = ...
\* the entries are the row objects themselves, held here by their positions
\* in data
FillFeed(acc, i, key, members, ctx) ==
    IF acc.exc # "none" THEN acc
    ELSE IF acc.val.feeds[i].value # key THEN acc
    ELSE CHOOSE r \in
             {IF s.exc # "none" THEN [acc EXCEPT !.exc = s.exc, !.rows = s.rows]
              ELSE [exc |-> "none",
                    val |-> [acc.val EXCEPT !.feeds[i].entries =
                                [j \in DOMAIN s.val |-> news_item(ctx.binding, s.val[j])]],
                    rows |-> s.rows]
                : s \in {SortedEntries(acc.rows, members, ctx.facet, ctx.binding)}} : TRUE

\* the body of the loop over documents.keys()
FillBucket(acc, key, documents, ctx) ==
    LET Body(a, i) == FillFeed(a, i, key, documents.members[key], ctx)
    IN ForEach(Body, acc, Positions(acc.val.feeds))

\* one feedset with the entries of its feeds filled in
FilledFeedset(feedset, facet, rows) ==
    LET binding == FacetBinding(facet)
        ctx == [facet |-> facet, binding |-> binding]
    IN CHOOSE r \in
           {IF documents.exc # "none"
            THEN [exc |-> documents.exc, val |-> feedset, rows |-> documents.rows]
            ELSE LET Body(acc, key) == FillBucket(acc, key, documents, ctx)
                 IN ForEach(Body,
                            [exc |-> "none", val |-> feedset, rows |-> documents.rows],
                            documents.keys)
              : documents \in {GroupRows(rows, facet.identificator, binding)}} : TRUE

\* the body of the loop over zip(feedsets, facets); acc.val is the list of
\* feedsets, changed in place
SelectForFeedset(acc, i, fs) ==
    IF acc.exc # "none" THEN acc
    ELSE CHOOSE r \in
             {[exc |-> filled.exc, val |-> [acc.val EXCEPT ![i] = filled.val],
               rows |-> filled.rows]
                : filled \in {FilledFeedset(acc.val[i], fs[i], acc.rows)}} : TRUE

\* a feedset with each entry position replaced by the row it stands for
WithEntryRows(feedset, rows) ==
    [feedset EXCEPT !.feeds =
        [f \in DOMAIN feedset.feeds |->
            [feedset.feeds[f] EXCEPT !.entries =
                [j \in DOMAIN feedset.feeds[f].entries |->
                    rows[feedset.feeds[f].entries[j]]]]]]

\* news_select_for_feeds(data, feedsets, facets): the feedsets as the call
\* leaves them, the exception raised if any, and the rows of data after the
\* call
news_select_for_feeds(rows, fsets, fs) ==
    CHOOSE r \in
        {IF feedfacets.exc # "none"
         THEN [exc |-> feedfacets.exc, val |-> fsets, rows |-> rows]
         ELSE LET used == WithCatchAll(feedfacets.val, fsets)
                  Body(acc, i) == SelectForFeedset(acc, i, used)
              IN CHOOSE q \in
                     {[filled EXCEPT !.val =
                          [k \in DOMAIN filled.val |->
                              IF k \in DOMAIN Zip(fsets, used)
                              THEN WithEntryRows(filled.val[k], filled.rows)
                              ELSE filled.val[k]]]
                        : filled \in {ForEach(Body,
                                              [exc |-> "none", val |-> fsets,
                                               rows |-> rows],
                                              Positions(Zip(fsets, used)))}} : TRUE
           : feedfacets \in {FeedFacets(fs)}} : TRUE

----------------------------------------------------------------------------
(* The entries and facet lists the feeds are built from *)

\* a row of faceted_data decorated with the fields of its DocumentEntry
Entry(row, updated) ==
    ("updated" :> updated) @@ ("published" :> updated) @@ row

EntryUniverse ==
    {Entry(RowAbc, <<"3">>), Entry(RowAbcd, <<"5">>), Entry(RowDfg, <<"1">>),
     Entry(RowBare, <<"4">>), Entry(RowTwin, <<"3">>)}

\* sorted(ret, key=itemgetter('updated'), reverse=True) has been applied
NewestFirst(rows) ==
    \A i \in 1..(Len(rows) - 1) : ~StrLess(rows[i]["updated"], rows[i + 1]["updated"])

NewsFacetLists ==
    {<<>>,
     DefaultFacets,
     <<Facet("dcterms:issued", NoArgs)>>,
     <<WithFeedFlag(Facet("dcterms:issued", NoArgs), TRUE)>>,
     <<WithFeedFlag(Facet("dcterms:title", NoArgs), FALSE),
       WithFeedFlag(Facet("dcterms:issued", [key_descending |-> TRUE]), TRUE),
       WithFeedFlag(Facet("dcterms:publisher", NoArgs), TRUE)>>}

----------------------------------------------------------------------------
(* SpecNews: news_feedsets, then news_select_for_feeds, on one entry list *)

InitNews ==
    /\ pc = "news_feedsets"
    /\ data \in {rows \in ListsUpTo(EntryUniverse, MaxRows) : NewestFirst(rows)}
    /\ facets \in NewsFacetLists
    /\ feedsets = <<>>
    /\ pagesets = <<>>
    /\ pagecontent = EmptyDict
    /\ raised = NoException
    /\ entries = <<>>
    /\ archivesize = 1
    /\ cnt = 0
    /\ res = <<>>
    /\ written = <<>>
    /\ orig = <<>>
    /\ OtherIdle

\* feedsets = self.news_feedsets(data, facets)
NewsFeedsets ==
    /\ pc = "news_feedsets"
    /\ LET r == news_feedsets(data, facets)
       IN /\ data' = r.rows
          /\ IF r.exc = "none"
             THEN /\ feedsets' = r.val
                  /\ pc' = "news_select_for_feeds"
                  /\ UNCHANGED raised
             ELSE /\ raised' = [call |-> "news_feedsets", exc |-> r.exc]
                  /\ pc' = "raised"
                  /\ UNCHANGED feedsets
    /\ UNCHANGED <<facets, pagesets, pagecontent, atomvars, othervars>>

\* feeds = self.news_select_for_feeds(data, feedsets, facets)
NewsSelectForFeeds ==
    /\ pc = "news_select_for_feeds"
    /\ LET r == news_select_for_feeds(data, feedsets, facets)
       IN /\ data' = r.rows
          /\ feedsets' = r.val
          /\ IF r.exc = "none"
             THEN pc' = "news_done" /\ UNCHANGED raised
             ELSE /\ raised' = [call |-> "news_select_for_feeds", exc |-> r.exc]
                  /\ pc' = "raised"
    /\ UNCHANGED <<facets, pagesets, pagecontent, atomvars, othervars>>

NextNews == NewsFeedsets \/ NewsSelectForFeeds

SpecNews == InitNews /\ [][NextNews]_vars

----------------------------------------------------------------------------
(* documentrepository.py: news_entries and news_facet_entries *)

\* a DocumentEntry file: the fields news_entries reads, and whether the
\* distilled file of its basefile exists
DocumentEntry(basefile, id, published, updated, distilled) ==
    [basefile |-> basefile, id |-> id, title |-> <<>>, published |-> published,
     updated |-> updated, distilled |-> distilled]

\* self.config.url + "res/" + self.alias + "/"
UriBase == <<"u">>

\* canonical_uri: "%sres/%s/%s" % (self.config.url, self.alias, basefile)
canonical_uri(basefile) == UriBase \o basefile

\* 'forceid' in self.config and self.config.forceid
ForceId == FALSE

\* the entry as news_entries yields it: the missing properties are set
CompletedEntry(entry) ==
    LET withid == IF entry.id = <<>> \/ ForceId
                  THEN [entry EXCEPT !.id = canonical_uri(entry.basefile)]
                  ELSE entry
    IN IF withid.title = <<>> THEN [withid EXCEPT !.title = withid.id] ELSE withid

\* news_entries: the published entries that have a distilled file
news_entries(docs) ==
    LET kept == SelectSeq(docs, LAMBDA e : e.published # <<>> /\ e.distilled)
    IN [i \in DOMAIN kept |-> CompletedEntry(kept[i])]

\* dict([(x['uri'], x) for x in data])
DataDict(rows) ==
    LET Body(d, row) == DictSet(d, row["uri"], row)
    IN ForEach(Body, EmptyDict, rows)

\* for prop in (...): d[prop] = getattr(entry, prop)
Decorated(row, entry) ==
    ("updated" :> entry.updated) @@ ("published" :> entry.published) @@
    ("basefile" :> entry.basefile) @@ ("title" :> entry.title) @@ row

\* the body of the loop over news_entries(): the rows of datadict are
\* changed in place, ret lists the uri of the row appended
DecorateEntry(acc, entry) ==
    IF entry.id \notin DOMAIN acc.datadict THEN acc
    ELSE [datadict |-> [acc.datadict EXCEPT ![entry.id] = Decorated(@, entry)],
          ret |-> Append(acc.ret, entry.id)]

\* news_facet_entries, cache not used: the decorated rows, newest first
news_facet_entries(rows, docs) ==
    LET done == ForEach(DecorateEntry, [datadict |-> DataDict(rows), ret |-> <<>>],
                        news_entries(docs))
        ret == [i \in DOMAIN done.ret |->
                   [k |-> Str(done.datadict[done.ret[i]]["updated"]),
                    row |-> done.datadict[done.ret[i]]]]
        s == StableSort(ret, TRUE)
    IN [i \in DOMAIN s |-> s[i].row]

DocPlain == DocumentEntry(<<"1">>, <<"u", "1">>, <<"3">>, <<"3">>, TRUE)

\* no id: the canonical uri of basefile 2 is the uri of RowAbcd
DocNoId == DocumentEntry(<<"2">>, <<>>, <<"5">>, <<"5">>, TRUE)

DocUnpublished == DocumentEntry(<<"3">>, <<"u", "3">>, <<>>, <<"1">>, TRUE)

\* no row of faceted_data has this uri
DocOrphan == DocumentEntry(<<"9">>, <<"u", "9">>, <<"4">>, <<"4">>, TRUE)

DocUndistilled == DocumentEntry(<<"6">>, <<"u", "6">>, <<"2">>, <<"2">>, FALSE)

DocUniverse == {DocPlain, DocNoId, DocUnpublished, DocOrphan, DocUndistilled}

FeedRowUniverse == {RowAbc, RowAbcd, RowDfg, RowTwin}

----------------------------------------------------------------------------
(* SpecFeed: news(): news_facet_entries, news_feedsets,                     *)
(* news_select_for_feeds                                                    *)

InitFeed ==
    /\ pc = "news_facet_entries"
    /\ fdata \in ListsUpTo(FeedRowUniverse, MaxRows)
    /\ docentries \in ListsUpTo(DocUniverse, MaxDocs)
    /\ facets \in NewsFacetLists
    /\ data = <<>>
    /\ feedsets = <<>>
    /\ pagesets = <<>>
    /\ pagecontent = EmptyDict
    /\ raised = NoException
    /\ entries = <<>>
    /\ archivesize = 1
    /\ cnt = 0
    /\ res = <<>>
    /\ written = <<>>
    /\ orig = <<>>
    /\ CallIdle
    /\ RunIdle
    /\ StoreIdle

\* data = self.news_facet_entries()
NewsFacetEntries ==
    /\ pc = "news_facet_entries"
    /\ data' = news_facet_entries(fdata, docentries)
    /\ pc' = "news_feedsets"
    /\ UNCHANGED <<facets, pagesets, pagecontent, feedsets, raised, atomvars,
                   othervars>>

NextFeed == NewsFacetEntries \/ NewsFeedsets \/ NewsSelectForFeeds

SpecFeed == InitFeed /\ [][NextFeed]_vars

----------------------------------------------------------------------------
(* facet.py: Facet.__eq__ *)

\* faulty variant: the selector is left out of the comparison
Facet_eq_noselector(self, other) ==
    /\ self.rdftype = other.rdftype
    /\ self.dimension_type = other.dimension_type
    /\ self.dimension_label = other.dimension_label

\* Facet.__eq__
Facet_eq(self, other) ==
    /\ self.rdftype = other.rdftype
    /\ self.dimension_type = other.dimension_type
    /\ self.dimension_label = other.dimension_label
    /\ self.selector = other.selector

----------------------------------------------------------------------------
(* SpecFacet: two Facet objects are constructed, then compared *)

\* an rdftype Facet.defaults has no entry for
UnknownType == "ex:unknown"

FacetTypes == DOMAIN FacetDefaults \cup {UnknownType}

\* the keyword arguments of the constructor calls
ArgumentLists ==
    {NoArgs,
     [use_for_toc |-> FALSE],
     [use_for_toc |-> TRUE, toplevel_only |-> FALSE],
     [selector |-> "defaultselector"],
     [key |-> "year", identificator |-> "term"],
     [selector_descending |-> TRUE, key_descending |-> TRUE, multiple_values |-> FALSE],
     [label |-> "Sorted by %(term)s!", pagetitle |-> "%(selected)s",
      key |-> "titlesortkey", use_for_toc |-> TRUE],
     [dimension_label |-> "custom", dimension_type |-> "value"],
     [indexingtype |-> "Label"]}

ConstructorCalls == [rdftype : FacetTypes, args : ArgumentLists]

InitFacet ==
    /\ pc = "construct"
    /\ callargs \in [1..2 -> ConstructorCalls]
    /\ callret = <<>>
    /\ raised = NoException
    /\ AtomIdle
    /\ FacetIdle
    /\ SourceIdle
    /\ RunIdle
    /\ StoreIdle

\* a = Facet(...); b = Facet(...)
Construct ==
    /\ pc = "construct"
    /\ callret' = [built |-> [i \in 1..2 |->
                                 Facet(callargs[i].rdftype, callargs[i].args)],
                   compared |-> FALSE, eq |-> FALSE]
    /\ pc' = "compare"
    /\ UNCHANGED <<callargs, raised, atomvars, facetvars, sourcevars, firstrun, storevars>>

\* a == b
Compare ==
    /\ pc = "compare"
    /\ callret' = [callret EXCEPT !.compared = TRUE,
                                  !.eq = Facet_eq(callret.built[1], callret.built[2])]
    /\ pc' = "facet_done"
    /\ UNCHANGED <<callargs, raised, atomvars, facetvars, sourcevars, firstrun, storevars>>

NextFacet == Construct \/ Compare

SpecFacet == InitFacet /\ [][NextFacet]_vars

----------------------------------------------------------------------------
(* The store: the files that faceted_data(), toc() and news() read and      *)
(* write, with their modification times                                     *)

\* paths below the repository's data directory (store.resourcepath)
DumpPath == "distilled/dump.nt"
EntriesPath == "entries/*.json"
FacetedDataPath == "toc/faceted_data.json"
TocPagePath == "toc/*/*.html"
TocIndexPath == "toc/index.html"
FacetedEntriesPath == "feed/faceted_entries.json"
FeedPath == "feed/main.atom"
NewsIndexPath == "news/main.atom"

Paths ==
    {DumpPath, EntriesPath, FacetedDataPath, TocPagePath, TocIndexPath,
     FacetedEntriesPath, FeedPath, NewsIndexPath}

\* how much of a file's content has reached the disk
Nothing == "nothing"
Part == "part"
Whole == "whole"

\* what a file holds: the version of the data it was made from and, where
\* the text embeds the time of writing, that time
Content(version) == [version |-> version, stamp |-> 0]
Stamped(version, now) == [version |-> version, stamp |-> now]

Absent == [mtime |-> 0, content |-> Content(0), written |-> Nothing]

\* os.path.exists
Exists(fs, path) == fs[path].mtime > 0

\* util.outfile_is_newer: the outfile exists and no existing infile has a
\* later modification time
outfile_is_newer(fs, infiles, outfile) ==
    /\ Exists(fs, outfile)
    /\ \A f \in infiles : Exists(fs, f) => fs[f].mtime <= fs[outfile].mtime

\* the state a run works on: the files, the time, and what the run has
\* done so far
StartOfRun(fs, now) ==
    [files |-> fs, clock |-> now, data |-> 0, recomputed |-> FALSE,
     skipped |-> FALSE, rewritten |-> {}, exc |-> "none"]

\* with open(path, "w") as fp: fp.write(s)
WriteFile(w, path, content) ==
    [w EXCEPT !.clock = w.clock + 1,
              !.files[path] = [mtime |-> w.clock + 1, content |-> content,
                               written |-> Whole],
              !.rewritten = w.rewritten \cup {path}]

\* util.replace_if_different: the target is replaced unless it exists and
\* holds the same content
replace_if_different(w, path, content) ==
    IF Exists(w.files, path) /\ w.files[path].content = content
    THEN w
    ELSE WriteFile(w, path, content)

\* faceted_data: the cache is loaded when it is not older than the dump,
\* otherwise the rows are selected again and the cache is written
faceted_data(w, r, force) ==
    IF /\ ~force
       /\ Exists(w.files, FacetedDataPath)
       /\ outfile_is_newer(w.files, {DumpPath}, FacetedDataPath)
    THEN [w EXCEPT !.data = w.files[FacetedDataPath].content.version]
    ELSE [WriteFile(w, FacetedDataPath, Content(r.version))
             EXCEPT !.data = r.version, !.recomputed = TRUE]

\* toc, on rows for which the TOC steps succeed; skipped: it returned with
\* "Not regenerating TOCs"
toc(w, r, force) ==
    IF ~r.tabs THEN w
    ELSE IF ~force /\ outfile_is_newer(w.files, {FacetedDataPath}, TocIndexPath)
    THEN [w EXCEPT !.skipped = TRUE]
    ELSE LET d == faceted_data(w, r, force)
             pages == WriteFile(d, TocPagePath, Content(d.data))
         IN  IF r.hasrows
             THEN [WriteFile(pages, TocIndexPath, Content(d.data))
                      EXCEPT !.recomputed = TRUE]
             ELSE d

\* news_facet_entries: the cache and the tests made before it is loaded
FacetedEntries(w, r, force) ==
    IF /\ ~force
       /\ Exists(w.files, FacetedEntriesPath)
       /\ outfile_is_newer(w.files, {FacetedEntriesPath, EntriesPath},
                           FacetedEntriesPath)
    THEN [w EXCEPT !.data = w.files[FacetedEntriesPath].content.version]
    ELSE LET d == faceted_data(w, r, force)
         IN  [WriteFile(d, FacetedEntriesPath, Content(d.data))
                 EXCEPT !.recomputed = TRUE]

\* news: news_feedsets raises on the first facet (it reads
\* facet.use_for_feed); with no facets the main feed is written, and a feed
\* without entries carries the time of writing
news(w, r, force) ==
    IF ~force /\ outfile_is_newer(w.files, {FacetedDataPath}, NewsIndexPath)
    THEN [w EXCEPT !.skipped = TRUE]
    ELSE LET d == FacetedEntries(w, r, force)
             feed == IF r.hasrows THEN Content(d.data)
                     ELSE Stamped(d.data, d.clock + 1)
         IN  IF r.facets = "default"
             THEN [d EXCEPT !.recomputed = TRUE, !.exc = "AttributeError"]
             ELSE [replace_if_different(d, FeedPath, feed)
                      EXCEPT !.recomputed = TRUE]

RunOf(fn, w, r, force) ==
    CASE fn = "faceted_data" -> faceted_data(w, r, force)
      [] fn = "toc"          -> toc(w, r, force)
      [] fn = "news"         -> news(w, r, force)

----------------------------------------------------------------------------
(* SpecBuild: runs of faceted_data(), toc() and news() on one store, while  *)
(* the dump and the entry files change in between                           *)

Present(now, version) ==
    [mtime |-> now, content |-> Content(version), written |-> Whole]

InitBuild ==
    /\ pc = "idle"
    /\ clock = 1
    /\ \E dump \in {Absent, Present(1, 1)} :
           files = [p \in Paths |->
                       IF p = DumpPath THEN dump
                       ELSE IF p = EntriesPath THEN Present(1, 1)
                       ELSE Absent]
    /\ repo \in [tabs : BOOLEAN, hasrows : BOOLEAN,
                 facets : {"none", "default"}, version : {1}]
    /\ runlog = NoRun
    /\ writer = <<>>
    /\ observed = {}
    /\ raised = NoException
    /\ AtomIdle
    /\ FacetIdle
    /\ SourceIdle
    /\ CallIdle
    /\ RunIdle

\* the documents are processed again: new data and a new dump
TouchDump ==
    /\ clock < MaxClock
    /\ clock' = clock + 1
    /\ repo' = [repo EXCEPT !.version = repo.version + 1]
    /\ files' = [files EXCEPT ![DumpPath] = Present(clock + 1, repo.version + 1)]
    /\ UNCHANGED <<pc, runlog, writer, observed, raised, atomvars, facetvars,
                   sourcevars, callvars, firstrun>>

\* a document entry is saved
TouchEntries ==
    /\ clock < MaxClock
    /\ clock' = clock + 1
    /\ files' = [files EXCEPT ![EntriesPath] = Present(clock + 1, repo.version)]
    /\ UNCHANGED <<pc, repo, runlog, writer, observed, raised, atomvars,
                   facetvars, sourcevars, callvars, firstrun>>

Run(fn) ==
    \E force \in BOOLEAN :
        LET w == RunOf(fn, StartOfRun(files, clock), repo, force)
        IN  /\ w.clock <= MaxClock
            /\ files' = w.files
            /\ clock' = w.clock
            /\ runlog' = [ran |-> TRUE, fn |-> fn, force |-> force,
                          before |-> files, recomputed |-> w.recomputed,
                          skipped |-> w.skipped,
                          rewritten |-> w.rewritten, exc |-> w.exc]
            /\ UNCHANGED <<pc, repo, writer, observed, raised, atomvars,
                           facetvars, sourcevars, callvars, firstrun>>

RunFacetedData == Run("faceted_data")
RunToc == Run("toc")
RunNews == Run("news")

NextBuild == TouchDump \/ TouchEntries \/ RunFacetedData \/ RunToc \/ RunNews

SpecBuild == InitBuild /\ [][NextBuild]_vars

----------------------------------------------------------------------------
(* SpecWrite: the file writes of one recomputing run of faceted_data(),     *)
(* toc() or news(), one step per system call, and a reader of the output   *)
(* files running at the same time                                           *)

\* a file written in place, and a file written to a temporary file that
\* then replaces the target
InPlace(path) == [path |-> path, how |-> "open"]
ViaTemp(path) == [path |-> path, how |-> "mkstemp"]

\* the files a run writes, in the order it writes them
RunWrites(fn) ==
    CASE fn = "faceted_data" -> <<InPlace(FacetedDataPath)>>
      [] fn = "toc"          -> <<InPlace(FacetedDataPath), InPlace(TocPagePath),
                                  InPlace(TocIndexPath)>>
      [] fn = "news"         -> <<InPlace(FacetedDataPath),
                                  InPlace(FacetedEntriesPath), ViaTemp(FeedPath)>>

OutputPaths ==
    {FacetedDataPath, TocPagePath, TocIndexPath, FacetedEntriesPath, FeedPath}

InitWrite ==
    /\ pc = "writing"
    /\ clock = 1
    /\ \E old \in SUBSET OutputPaths :
           files = [p \in Paths |->
                       IF p \in old \cup {DumpPath, EntriesPath}
                       THEN Present(1, 1) ELSE Absent]
    /\ repo = [tabs |-> TRUE, hasrows |-> TRUE, facets |-> "none", version |-> 2]
    /\ \E fn \in {"faceted_data", "toc", "news"} :
           writer = [fn |-> fn, todo |-> RunWrites(fn), step |-> "start"]
    /\ runlog = NoRun
    /\ observed = {}
    /\ raised = NoException
    /\ AtomIdle
    /\ FacetIdle
    /\ SourceIdle
    /\ CallIdle
    /\ RunIdle

Target == Head(writer.todo).path

Finished ==
    /\ writer' = [writer EXCEPT !.todo = Tail(writer.todo), !.step = "start"]
    /\ pc' = IF Tail(writer.todo) = <<>> THEN "written" ELSE "writing"

WriteFrame ==
    UNCHANGED <<repo, runlog, observed, raised, atomvars, facetvars,
                sourcevars, callvars, firstrun>>

\* open(path, "w"): the target is created or truncated
OpenTarget ==
    /\ pc = "writing"
    /\ writer.step = "start"
    /\ Head(writer.todo).how = "open"
    /\ clock' = clock + 1
    /\ files' = [files EXCEPT ![Target] =
                    [mtime |-> clock + 1, content |-> Content(repo.version),
                     written |-> Nothing]]
    /\ writer' = [writer EXCEPT !.step = "opened"]
    /\ UNCHANGED pc
    /\ WriteFrame

\* fp.write(s): a full buffer reaches the file before the rest does
FlushTarget ==
    /\ pc = "writing"
    /\ writer.step = "opened"
    /\ files[Target].written = Nothing
    /\ clock' = clock + 1
    /\ files' = [files EXCEPT ![Target].written = Part,
                              ![Target].mtime = clock + 1]
    /\ UNCHANGED <<pc, writer>>
    /\ WriteFrame

\* leaving the with block: the rest is written and the file is closed
CloseTarget ==
    /\ pc = "writing"
    /\ writer.step = "opened"
    /\ clock' = clock + 1
    /\ files' = [files EXCEPT ![Target].written = Whole,
                              ![Target].mtime = clock + 1]
    /\ Finished
    /\ WriteFrame

\* mkstemp() and the write of the temporary file
WriteTemp ==
    /\ pc = "writing"
    /\ writer.step = "start"
    /\ Head(writer.todo).how = "mkstemp"
    /\ writer' = [writer EXCEPT !.step = "tempfile"]
    /\ UNCHANGED <<pc, files, clock>>
    /\ WriteFrame

\* util.replace_if_different(tmpfile, feedfile)
ReplaceTarget ==
    /\ pc = "writing"
    /\ writer.step = "tempfile"
    /\ LET w == replace_if_different(StartOfRun(files, clock), Target,
                                     Content(repo.version))
       IN  files' = w.files /\ clock' = w.clock
    /\ Finished
    /\ WriteFrame

\* another process opens an output file and reads it
ReadTarget ==
    /\ \E p \in OutputPaths :
           /\ Exists(files, p)
           /\ observed' = {[path |-> p, written |-> files[p].written]}
    /\ UNCHANGED <<pc, files, clock, repo, runlog, writer, raised, atomvars,
                   facetvars, sourcevars, callvars, firstrun>>

NextWrite ==
    \/ OpenTarget
    \/ FlushTarget
    \/ CloseTarget
    \/ WriteTemp
    \/ ReplaceTarget
    \/ ReadTarget

SpecWrite == InitWrite /\ [][NextWrite]_vars

----------------------------------------------------------------------------
(* documentrepository.py: _relate_fulltext_value *)

BodyTag == "{http://www.w3.org/1999/xhtml}body"
DivTag == "{http://www.w3.org/1999/xhtml}div"

\* sorted(v) for a list of strings
SortedStrings(S) ==
    LET sorted == SortedValues({Str(x) : x \in S})
    IN  [i \in DOMAIN sorted |-> sorted[i].s]

\* {'iri': value, 'label': label}, the label found as Facet.resourcelabel does
Labelled(value) ==
    [iri |-> value, label |-> resourcelabel([none |-> value], "none").val.s]

\* the list v the function works on: desc.getrels in the order the graph
\* gives, labelled and sorted for a Resource facet, or else the sorted
\* desc.getvalues
FulltextCandidates(facet, rels, values) ==
    IF facet.indexingtype = "Resource"
    THEN LET sorted == SortedStrings(Range(rels))
         IN  [i \in DOMAIN sorted |-> Labelled(sorted[i])]
    ELSE IF rels # <<>> THEN rels
    ELSE SortedStrings(values)

\* what the call returns: k and v, whether a warning was logged, and the
\* exception raised, if any
FulltextResult(k, v, warned) == [exc |-> "none", k |-> k, v |-> v, warned |-> warned]
FulltextRaised(e) == [exc |-> e, k |-> None, v |-> None, warned |-> FALSE]

\* the names about, repo and basefile in the arguments of the warning are
\* not bound in this function: NameError before anything is logged. With a
\* dimension_label the value goes through facet.selector({None: v}, None),
\* here Facet.defaultselector, which returns it as it is.
relate_fulltext_value(facet, tag, rels, values) ==
    IF facet.toplevel_only /\ tag # BodyTag THEN FulltextResult(None, None, FALSE)
    ELSE LET v == FulltextCandidates(facet, rels, values)
             k == IF facet.dimension_label # None THEN facet.dimension_label
                  ELSE None
         IN  IF v = <<>> THEN FulltextResult(None, None, FALSE)
             ELSE IF facet.multiple_values THEN FulltextResult(k, v, FALSE)
             ELSE IF Len(v) > 1 THEN FulltextRaised("NameError")
             ELSE FulltextResult(k, v[1], FALSE)

----------------------------------------------------------------------------
(* SpecFulltext: one call of _relate_fulltext_value *)

FulltextFacets ==
    [toplevel_only : BOOLEAN, multiple_values : BOOLEAN,
     dimension_label : {None, Str(<<"l">>)},
     indexingtype : {"Resource", "Text"}]

FulltextUris == {<<"h", ":", "/", "a", "/", "p">>, <<"h", ":", "/", "a", "/", "b">>}
FulltextLiterals == {<<"x">>, <<"a", "b">>}

\* the lists without repetition over a set of at most two elements
ListsOf(S) ==
    {<<>>} \cup {<<x>> : x \in S}
           \cup {p \in S \X S : p[1] # p[2]}

InitFulltext ==
    /\ pc = "call"
    /\ callargs \in [facet : FulltextFacets, tag : {BodyTag, DivTag},
                     rels : ListsOf(FulltextUris),
                     values : SUBSET FulltextLiterals]
    /\ callret = <<>>
    /\ raised = NoException
    /\ AtomIdle
    /\ FacetIdle
    /\ SourceIdle
    /\ RunIdle
    /\ StoreIdle

\* k, v = self._relate_fulltext_value(facet, resource, desc)
RelateFulltextValue ==
    /\ pc = "call"
    /\ callret' = relate_fulltext_value(callargs.facet, callargs.tag,
                                        callargs.rels, callargs.values)
    /\ pc' = "called"
    /\ UNCHANGED <<callargs, raised, atomvars, facetvars, sourcevars, firstrun, storevars>>

NextFulltext == RelateFulltextValue

SpecFulltext == InitFulltext /\ [][NextFulltext]_vars

----------------------------------------------------------------------------
(* documentrepository.py: faceted_data, the rows it returns *)

\* dupes: the indexes of the rows whose uri an earlier row has
DuplicateIndexes(rows) ==
    {i \in DOMAIN rows : \E j \in 1..(i - 1) : rows[j].uri = rows[i].uri}

\* the rows left after data.pop(idx) for every idx in reversed(dupes)
RECURSIVE WithoutIndexes(_, _, _)
WithoutIndexes(rows, dupes, i) ==
    IF i > Len(rows) THEN <<>>
    ELSE (IF i \in dupes THEN <<>> ELSE <<rows[i]>>)
             \o WithoutIndexes(rows, dupes, i + 1)

\* data = self.facet_select(...), then the removal of the duplicates
FacetedRows(selected) == WithoutIndexes(selected, DuplicateIndexes(selected), 1)

----------------------------------------------------------------------------
(* SpecSelect: faceted_data() computing its rows from what facet_select     *)
(* returns                                                                  *)

\* one document with two subjects: SELECT DISTINCT gives a row per value
RowSubjectX ==
    [uri |-> <<"u", "1">>, dcterms_title |-> <<"A", "b", "c">>,
     dcterms_subject |-> <<"x">>]
RowSubjectY ==
    [uri |-> <<"u", "1">>, dcterms_title |-> <<"A", "b", "c">>,
     dcterms_subject |-> <<"y">>]

SelectedUniverse == {RowSubjectX, RowSubjectY, RowAbcd, RowDfg}

\* the facet with multiple_values among the facets of the repository
SubjectFacet == Facet("dcterms:subject", NoArgs)

InitSelect ==
    /\ pc = "call"
    /\ \E n \in 0..MaxRows : callargs \in [1..n -> SelectedUniverse]
    /\ callret = <<>>
    /\ raised = NoException
    /\ AtomIdle
    /\ FacetIdle
    /\ SourceIdle
    /\ RunIdle
    /\ StoreIdle

\* data = self.faceted_data(), the cache being out of date
FacetedData ==
    /\ pc = "call"
    /\ callret' = FacetedRows(callargs)
    /\ pc' = "called"
    /\ UNCHANGED <<callargs, raised, atomvars, facetvars, sourcevars, firstrun, storevars>>

NextSelect == FacetedData

SpecSelect == InitSelect /\ [][NextSelect]_vars

----------------------------------------------------------------------------
(* Properties of news_write_atom (SpecAtom) *)

AtomDone == pc = "done"

\* the write_file calls that wrote the file called name
WritesOf(name) == {i \in DOMAIN written : written[i].name = name}

\* the file called name, as written (the last write wins)
FileNamed(name) ==
    written[CHOOSE i \in WritesOf(name) : \A j \in WritesOf(name) : j <= i]

IsWritten(name) == WritesOf(name) # {}

\* the archive chunks, chunk 1 (oldest) first
ChunkFiles == [k \in 1..cnt |-> FileNamed(ArchiveName(k))]

ChunkEntries == [k \in 1..cnt |-> ChunkFiles[k].entries]

MainFile == FileNamed(MainName)

Reverse(s) == [i \in 1..Len(s) |-> s[Len(s) + 1 - i]]

NoDuplicates(s) == \A i, j \in DOMAIN s : i # j => s[i] # s[j]

Max(x, y) == IF x >= y THEN x ELSE y
Min(x, y) == IF x <= y THEN x ELSE y

\* C1: every input entry is in exactly one written file: the files are
\* distinct, their entry counts sum to N, every input entry is in some file
\* and no entry occurs in two files or twice in one file.
C1_ArchivePartition ==
    AtomDone =>
        LET all == SeqConcat([i \in DOMAIN written |-> written[i].entries])
        IN /\ NoDuplicates([i \in DOMAIN written |-> written[i].name])
           /\ Len(all) = Len(orig)
           /\ Range(all) = Range(orig)
           /\ NoDuplicates(all)

C1_Witness ==
    /\ AtomDone
    /\ cnt >= 2
    /\ Len(MainFile.entries) > archivesize
    /\ archivesize >= 2

\* C2 as stated: chunk 1, chunk 2, ..., newest chunk, then the main file,
\* concatenated in that order, equal the original newest-first list.
C2_OldestFirstConcat ==
    AtomDone => SeqConcat(ChunkEntries \o <<MainFile.entries>>) = orig

\* C2 amended: the main file, then the newest chunk, ..., then chunk 1,
\* concatenated in that order, equal the original newest-first list
\* element for element and position for position.
C2_NewestFirstConcat ==
    AtomDone => SeqConcat(<<MainFile.entries>> \o Reverse(ChunkEntries)) = orig

C2_Witness ==
    /\ AtomDone
    /\ cnt >= 2
    /\ archivesize >= 2
    /\ SeqConcat(<<MainFile.entries>> \o Reverse(ChunkEntries)) = orig
    /\ SeqConcat(ChunkEntries \o <<MainFile.entries>>) # orig

\* C3: exactly max(0, floor(N/a) - 1) chunks are cut, numbered 1, 2, ... in
\* the order they are cut; each holds a entries; chunk k holds the k-th block
\* of a entries counted from the tail of the input; the main file holds the
\* remaining N - a*chunks entries from the head of the input.
C3_ChunkCountAndSizes ==
    AtomDone =>
        LET n == Len(orig)
            a == archivesize
        IN /\ cnt = Max(0, (n \div a) - 1)
           /\ Len(written) = cnt + 1
           /\ \A k \in 1..cnt :
                /\ written[k].name = ArchiveName(k)
                /\ Len(written[k].entries) = a
                /\ written[k].entries = SubSeq(orig, n - k * a + 1, n - (k - 1) * a)
           /\ written[cnt + 1].name = MainName
           /\ written[cnt + 1].entries = SubSeq(orig, 1, n - a * cnt)
           /\ (n = 25 /\ a = 10) => (cnt = 1 /\ Len(MainFile.entries) = 15)
           /\ (n = 30 /\ a = 10) => (cnt = 2 /\ Len(MainFile.entries) = 10)

C3_Witness ==
    /\ AtomDone
    /\ Len(orig) = 30
    /\ archivesize = 10
    /\ cnt = 2
    /\ Len(ChunkEntries[1]) = 10
    /\ Len(ChunkEntries[2]) = 10
    /\ Len(MainFile.entries) = 10

\* C4 as stated: the main file holds at least a and at most 2*a - 1 entries,
\* for any input length.
C4_MainSizeBound ==
    AtomDone =>
        /\ Len(MainFile.entries) >= archivesize
        /\ Len(MainFile.entries) <= 2 * archivesize - 1

\* C4 amended: the main file holds at most 2*a - 1 entries, and at least a
\* entries whenever the input has at least a entries (all N entries when the
\* input has fewer than a).
C4_MainSizeBoundAmended ==
    AtomDone =>
        /\ Len(MainFile.entries) >= Min(Len(orig), archivesize)
        /\ Len(MainFile.entries) <= 2 * archivesize - 1

C4_Witness ==
    /\ AtomDone
    /\ cnt >= 1
    /\ Len(orig) >= 2 * archivesize
    /\ Len(MainFile.entries) = 2 * archivesize - 1
    /\ archivesize >= 2

\* the names met when following next-archive from name, name included, for
\* at most fuel hops; the walk stops at a name with no file or no next
RECURSIVE NextWalk(_, _)
NextWalk(name, fuel) ==
    IF fuel = 0 \/ ~IsWritten(name) \/ FileNamed(name).next = NoArchive
    THEN <<name>>
    ELSE <<name>> \o NextWalk(FileNamed(name).next, fuel - 1)

\* the walk from the oldest chunk
ChainWalk == NextWalk(ArchiveName(1), Len(written) + 1)

CeilDiv(n, a) == (n + a - 1) \div a

\* C5 as stated: from the oldest chunk the main file is reached after
\* exactly ceil(N/a) - 1 next-archive hops (0 hops when no chunk exists),
\* visiting no file twice.
C5_ChainHopsCeil ==
    AtomDone =>
        IF cnt = 0
        THEN ~IsWritten(ArchiveName(1))
        ELSE /\ ChainWalk[Len(ChainWalk)] = MainName
             /\ NoDuplicates(ChainWalk)
             /\ Len(ChainWalk) - 1 = CeilDiv(Len(orig), archivesize) - 1

\* C5 amended: from the oldest chunk the main file is reached after exactly
\* floor(N/a) - 1 next-archive hops, one per chunk (no chunk exists, and
\* there is nothing to follow, when N < 2a), visiting no file twice.
C5_ChainHopsFloor ==
    AtomDone =>
        IF cnt = 0
        THEN ~IsWritten(ArchiveName(1)) /\ Len(orig) < 2 * archivesize
        ELSE /\ ChainWalk[Len(ChainWalk)] = MainName
             /\ NoDuplicates(ChainWalk)
             /\ \A i \in DOMAIN ChainWalk : IsWritten(ChainWalk[i])
             /\ Len(ChainWalk) - 1 = (Len(orig) \div archivesize) - 1
             /\ Len(ChainWalk) - 1 = cnt

C5_Witness ==
    /\ AtomDone
    /\ cnt >= 3
    /\ Len(orig) % archivesize # 0
    /\ Len(ChainWalk) = cnt + 1
    /\ ChainWalk[Len(ChainWalk)] = MainName

\* C6: chunk k has prev-archive = chunk k-1 (none for chunk 1) and
\* next-archive = chunk k+1, or the main file when k is the last chunk; the
\* main file has no next-archive and its prev-archive is the newest chunk
\* (and so none when no chunk was cut).
C6_LinkStructure ==
    AtomDone =>
        /\ \A k \in 1..cnt :
             /\ ChunkFiles[k].prev = (IF k > 1 THEN ArchiveName(k - 1) ELSE NoArchive)
             /\ ChunkFiles[k].next = (IF k < cnt THEN ArchiveName(k + 1) ELSE MainName)
        /\ MainFile.next = NoArchive
        /\ MainFile.prev = (IF cnt >= 1 THEN ArchiveName(cnt) ELSE NoArchive)

----------------------------------------------------------------------------
(* Properties of the TOC (SpecToc) *)

PagesetsBuilt == pc \in {"toc_select_for_pages", "toc_done"}

\* C7: no pageset built by toc_pagesets holds two pages with the same
\* (binding, value) pair, whatever the facet's identificator maps the
\* selector values to.
C7_PageKeysUnique ==
    PagesetsBuilt =>
        \A p \in DOMAIN pagesets :
            \A i, j \in DOMAIN pagesets[p].pages :
                i # j =>
                    <<pagesets[p].pages[i].binding, pagesets[p].pages[i].value>> #
                    <<pagesets[p].pages[j].binding, pagesets[p].pages[j].value>>

\* the keys of pagecontent whose bucket holds the item of row
BucketsOf(row, binding) ==
    {k \in DOMAIN pagecontent :
        /\ k[1] = binding
        /\ \E i \in DOMAIN pagecontent[k] :
               pagecontent[k][i] = toc_item(binding, row).val}

\* the pages of pageset that show the value v
PagesShowing(pageset, v) ==
    {i \in DOMAIN pageset.pages : pageset.pages[i].linktext = v}

\* C8: for every TOC facet, every row for which the selector yields a value
\* is in the bucket of the page showing that value; for a single-valued
\* facet it is in no other bucket of that facet.
C8_BucketCoverage ==
    pc = "toc_done" =>
        LET fs == TocFacets(facets)
        IN \A f \in DOMAIN fs : \A r \in DOMAIN data :
               LET binding == FacetBinding(fs[f])
                   selected == Apply(fs[f].selector, data[r], binding)
               IN selected.exc = "none" =>
                      /\ \E i \in PagesShowing(pagesets[f], selected.val) :
                             <<pagesets[f].pages[i].binding, pagesets[f].pages[i].value>>
                                 \in BucketsOf(data[r], binding)
                      /\ ~fs[f].multiple_values =>
                             Cardinality(BucketsOf(data[r], binding)) = 1

----------------------------------------------------------------------------
(* Properties of the feeds (SpecNews) *)

\* the single feed of the last feedset
MainFeed == feedsets[Len(feedsets)].feeds[1]

\* C9: after news_select_for_feeds the feed 'main' of the 'All' feedset
\* lists its entries by 'updated' descending: of two consecutive entries the
\* earlier one has an 'updated' timestamp >= that of the later one.
C9_AllFeedNewestFirst ==
    pc = "news_done" =>
        /\ MainFeed.slug = <<"main">>
        /\ \A i \in 1..(Len(MainFeed.entries) - 1) :
               ~StrLess(MainFeed.entries[i]["updated"],
                        MainFeed.entries[i + 1]["updated"])

\* the facets of the list that are feed-enabled
FeedEnabled(fs) == SelectSeq(fs, LAMBDA f : HasFeedFlag(f) /\ f.use_for_feed)

\* every facet of the list is as the constructor built it
ConstructorBuilt(fs) == \A i \in DOMAIN fs : ~HasFeedFlag(fs[i])

NewsFeedsetsEnded ==
    \/ pc \in {"news_select_for_feeds", "news_done"}
    \/ pc = "raised" /\ raised.call = "news_feedsets"

\* C10: for a list of facets as built by the Facet constructor, of which N
\* are feed-enabled, news_feedsets returns N+1 feedsets: one per
\* feed-enabled facet in facet order, then the feedset 'All' with exactly
\* one feed, of slug 'main', binding None and value None.
C10_FeedsetCount ==
    (NewsFeedsetsEnded /\ ConstructorBuilt(facets)) =>
        LET enabled == FeedEnabled(facets)
        IN /\ raised.call # "news_feedsets"
           /\ Len(feedsets) = Len(enabled) + 1
           /\ \A i \in DOMAIN enabled : feedsets[i].predicate = enabled[i].rdftype
           /\ feedsets[Len(feedsets)].label = <<"All">>
           /\ Len(feedsets[Len(feedsets)].feeds) = 1
           /\ MainFeed.slug = <<"main">>
           /\ MainFeed.binding = "None"
           /\ MainFeed.value = None

----------------------------------------------------------------------------
(* Properties of news() (SpecFeed) *)

FeedRunEnded == pc \in {"news_done", "raised"}

\* the id news_entries gives the entry
EntryId(entry) == CompletedEntry(entry).id

\* the feed lists the row decorated with the entry
InFeed(entry, feed) ==
    \E i \in DOMAIN feed.entries :
        /\ feed.entries[i]["uri"] = EntryId(entry)
        /\ feed.entries[i]["basefile"] = entry.basefile

\* C11: the run of news() does not abort; an entry is in the 'All' feed
\* exactly if it has a non-empty published timestamp and its id is the uri
\* of a row of faceted_data; an unpublished entry is in no feed of any
\* feedset.
C11_FeedMembership ==
    FeedRunEnded =>
        /\ raised = NoException
        /\ \A d \in DOMAIN docentries :
              /\ InFeed(docentries[d], MainFeed) <=>
                     /\ docentries[d].published # <<>>
                     /\ \E r \in DOMAIN fdata : fdata[r]["uri"] = EntryId(docentries[d])
              /\ docentries[d].published = <<>> =>
                     \A s \in DOMAIN feedsets : \A f \in DOMAIN feedsets[s].feeds :
                         ~InFeed(docentries[d], feedsets[s].feeds[f])

----------------------------------------------------------------------------
(* Properties of Facet (SpecFacet) *)

\* the fields of a Facet that have a default
DefaultedFields ==
    {"label", "pagetitle", "indexingtype", "selector", "key", "identificator",
     "toplevel_only", "use_for_toc", "selector_descending", "key_descending",
     "multiple_values", "dimension_type"}

\* what the fields fall back to when the registry has nothing for them
ConservativeDefaults ==
    [label |-> "Sorted by %(term)s",
     pagetitle |-> "Documents where %(term)s = %(selected)s",
     indexingtype |-> "Text",
     selector |-> "defaultselector", key |-> "defaultselector",
     identificator |-> "defaultselector",
     toplevel_only |-> FALSE, use_for_toc |-> FALSE,
     selector_descending |-> FALSE, key_descending |-> FALSE,
     multiple_values |-> FALSE, dimension_type |-> "None"]

\* the registry's value for the field, if any
InRegistry(rdftype, field) ==
    rdftype \in DOMAIN FacetDefaults /\ field \in DOMAIN FacetDefaults[rdftype]

\* the fields of the facet built by call are: the argument passed, else the
\* registry's value, else the conservative default
FieldsAsClaimed(call, facet) ==
    \A field \in DefaultedFields :
        facet[field] =
            IF field \in DOMAIN call.args THEN call.args[field]
            ELSE IF InRegistry(call.rdftype, field)
                 THEN FacetDefaults[call.rdftype][field]
                 ELSE ConservativeDefaults[field]

\* the cases the claim spells out, for a call with the identity only
NamedCasesAsClaimed(call, facet) ==
    call.args = NoArgs =>
        /\ call.rdftype = "dcterms:title" =>
               /\ facet.selector = "firstletter"
               /\ facet.key = "titlesortkey"
               /\ facet.use_for_toc
        /\ call.rdftype = "dcterms:issued" =>
               /\ facet.selector = "year"
               /\ facet.use_for_toc
        /\ call.rdftype = "schema:free" => facet.selector = "booleanvalue"
        /\ call.rdftype = UnknownType =>
               /\ facet.selector = "defaultselector"
               /\ facet.key = "defaultselector"
               /\ facet.identificator = "defaultselector"
               /\ ~facet.use_for_toc

\* the feed flag of the facet is as the claim says: set for dcterms:issued,
\* cleared for an identity the registry does not know
FeedFlagAsClaimed(call, facet) ==
    call.args = NoArgs =>
        /\ call.rdftype = "dcterms:issued" =>
               HasFeedFlag(facet) /\ facet.use_for_feed
        /\ call.rdftype = UnknownType =>
               HasFeedFlag(facet) /\ ~facet.use_for_feed

Constructed == pc \in {"compare", "facet_done"}

\* C12: every constructed Facet has each field from the argument passed,
\* else from the registry entry of its identity, else from the conservative
\* defaults; dcterms:title, dcterms:issued and schema:free get the selectors
\* and flags named; dcterms:issued is feed-enabled and an unknown identity is
\* not used for feed.
C12_FacetDefaulting ==
    Constructed =>
        \A i \in 1..2 :
            /\ FieldsAsClaimed(callargs[i], callret.built[i])
            /\ NamedCasesAsClaimed(callargs[i], callret.built[i])
            /\ FeedFlagAsClaimed(callargs[i], callret.built[i])

Compared == pc = "facet_done"

\* the two facets have the same rdftype, dimension_type, dimension_label
\* and selector
SameGrouping(a, b) ==
    /\ a.rdftype = b.rdftype
    /\ a.dimension_type = b.dimension_type
    /\ a.dimension_label = b.dimension_label
    /\ a.selector = b.selector

\* C13: two Facet objects compare equal exactly if their rdftype,
\* dimension_type, dimension_label and selector are all equal, whatever
\* their label, pagetitle, key, identificator and flags are.
C13_FacetEquality ==
    Compared =>
        (callret.eq <=> SameGrouping(callret.built[1], callret.built[2]))

C13_Witness ==
    /\ Compared
    /\ callret.eq
    /\ callret.built[1].label # callret.built[2].label
    /\ callret.built[1].pagetitle # callret.built[2].pagetitle
    /\ callret.built[1].key # callret.built[2].key
    /\ callret.built[1].use_for_toc # callret.built[2].use_for_toc

----------------------------------------------------------------------------
(* Properties of the TOC (SpecToc): rows that lack a binding *)

TocEnded == pc \in {"toc_done", "raised"}

\* the row has the binding of the facet
AppliesTo(facet, row) == Has(row, FacetBinding(facet))

\* every value a row has for the binding of a facet is one the selector,
\* key and identificator of that facet accept
WellFormed(rows, fs) ==
    \A f \in DOMAIN fs : \A r \in DOMAIN rows :
        AppliesTo(fs[f], rows[r]) =>
            \A fn \in {fs[f].selector, fs[f].key, fs[f].identificator} :
                Apply(fn, rows[r], FacetBinding(fs[f])).exc = "none"

\* the bucket stored under key lists the row
RowInBucket(row, key) ==
    \E i \in DOMAIN pagecontent[key] : pagecontent[key][i].uri = row["uri"]

\* every page of the pageset shows the value of a row that has the binding
PagesFromApplicableRows(pageset, facet) ==
    \A p \in DOMAIN pageset.pages :
        \E r \in DOMAIN data :
            /\ AppliesTo(facet, data[r])
            /\ Apply(facet.selector, data[r], FacetBinding(facet)) =
                   Returned(pageset.pages[p].linktext)

\* C14: on rows whose only defect is a missing binding, toc_pagesets and
\* toc_select_for_pages do not raise; a row that lacks the binding of a
\* facet is in no bucket of that facet and no page of that facet comes from
\* it; a row that has the binding of a facet is in a bucket of that facet.
C14_NotApplicableSkip ==
    (TocEnded /\ WellFormed(data, TocFacets(facets))) =>
        /\ raised = NoException
        /\ \A f \in DOMAIN TocFacets(facets) : \A r \in DOMAIN data :
               LET facet == TocFacets(facets)[f]
                   inbuckets == {k \in DOMAIN pagecontent :
                                    /\ k[1] = FacetBinding(facet)
                                    /\ RowInBucket(data[r], k)}
               IN IF AppliesTo(facet, data[r])
                  THEN inbuckets # {}
                  ELSE /\ inbuckets = {}
                       /\ PagesFromApplicableRows(pagesets[f], facet)

----------------------------------------------------------------------------
(* Properties of the TOC (SpecToc): facets that fail on a row *)

PagesetsEnded ==
    \/ pc \in {"toc_select_for_pages", "toc_done"}
    \/ pc = "raised" /\ raised.call = "toc_pagesets"

\* the selector or the identificator of the facet fails on some row
FailsOnSomeRow(facet, rows) ==
    \E r \in DOMAIN rows :
        \E fn \in {facet.selector, facet.identificator} :
            Apply(fn, rows[r], FacetBinding(facet)).exc # "none"

\* the pageset has a page for the value the facet selects from each row
PagesForAllRows(pageset, facet, rows) ==
    \A r \in DOMAIN rows :
        \E p \in DOMAIN pageset.pages :
            Returned(pageset.pages[p].linktext) =
                Apply(facet.selector, rows[r], FacetBinding(facet))

\* C15: toc_pagesets returns, whatever the rows hold: one pageset per TOC
\* facet, in facet order, and the pageset of every facet that fails on no
\* row has a page for each of its values, also when another facet fails on
\* some row.
C15_FailureIsolation ==
    PagesetsEnded =>
        /\ raised.call # "toc_pagesets"
        /\ Len(pagesets) = Len(TocFacets(facets))
        /\ \A f \in DOMAIN pagesets :
               /\ pagesets[f].predicate = TocFacets(facets)[f].rdftype
               /\ ~FailsOnSomeRow(TocFacets(facets)[f], data) =>
                      PagesForAllRows(pagesets[f], TocFacets(facets)[f], data)

----------------------------------------------------------------------------
(* Properties of a second TOC run (SpecRerun) *)

SecondRunEnded == firstrun.ran /\ pc \in {"toc_done", "raised"}

\* C16: the second run of toc_pagesets and toc_select_for_pages on the same
\* row list and facet list ends as the first did, with the same pagesets
\* (pages, order, URL fragments) and the same buckets in the same item
\* order.
C16_Determinism ==
    SecondRunEnded =>
        /\ pc = "toc_done"
        /\ pagesets = firstrun.pagesets
        /\ pagecontent = firstrun.pagecontent

----------------------------------------------------------------------------
(* Properties of the function library (SpecLibrary) *)

\* C18: a call of a selector, key or identificator function of the library
\* leaves every binding of the row it is given as it was.
C18_RowImmutability ==
    pc = "called" => callret.row = callargs.row

----------------------------------------------------------------------------
(* Frame of news_write_atom (SpecAtom) *)

\* C17: when news_write_atom returns, the entry list its caller passed in
\* has the length and the elements, in the order, it had at call time.
C17_SplitterPurity ==
    AtomDone => entries = orig

----------------------------------------------------------------------------
(* Properties of the staleness tests (SpecBuild) *)

\* the file a function produces last, and the file it is derived from
Output(fn) ==
    CASE fn = "faceted_data" -> FacetedDataPath
      [] fn = "toc"          -> TocIndexPath
      [] fn = "news"         -> FeedPath

Source(fn) ==
    CASE fn = "faceted_data" -> DumpPath
      [] fn = "toc"          -> FacetedDataPath
      [] fn = "news"         -> FacetedDataPath

UpToDate(fn, fs) ==
    /\ Exists(fs, Output(fn))
    /\ Exists(fs, Source(fn))
    /\ fs[Source(fn)].mtime < fs[Output(fn)].mtime

Enabled(fn) == fn = "toc" => repo.tabs

\* C19: a run of faceted_data, toc or news without force whose output
\* exists and is newer than its source recomputes nothing and rewrites no
\* file; a run with force recomputes.
C19_StalenessCheck ==
    runlog.ran =>
        /\ (~runlog.force /\ UpToDate(runlog.fn, runlog.before))
               => (~runlog.recomputed /\ runlog.rewritten = {})
        /\ (runlog.force /\ Enabled(runlog.fn)) => runlog.recomputed

----------------------------------------------------------------------------
(* Properties of the file writes (SpecWrite) *)

\* C20: a reader running while toc(), news() or faceted_data() writes its
\* TOC pages, feed files and cache files never reads a file that is empty
\* or partially written.
C20_AtomicOutput ==
    \A o \in observed : o.written = Whole

----------------------------------------------------------------------------
(* Properties of _relate_fulltext_value (SpecFulltext) *)

\* the facet takes one value and the resource has more than one
Overflow ==
    /\ ~callargs.facet.multiple_values
    /\ ~(callargs.facet.toplevel_only /\ callargs.tag # BodyTag)
    /\ Len(FulltextCandidates(callargs.facet, callargs.rels, callargs.values)) > 1

\* C21: when a facet without multiple_values finds more than one value,
\* _relate_fulltext_value raises nothing, logs a warning and returns the
\* first value of the list.
C21_SingleValuedOverflow ==
    (pc = "called" /\ Overflow) =>
        /\ callret.exc = "none"
        /\ callret.warned
        /\ callret.v = FulltextCandidates(callargs.facet, callargs.rels,
                                          callargs.values)[1]

\* the sortable form of row[binding]; KeyError if the row lacks the binding
SortableForm(row, binding) ==
    IF Has(row, binding) THEN Returned(Str(title_sortkey(row[binding])))
    ELSE Raised("KeyError")

\* its first character
FirstOfSortableForm(row, binding) ==
    LET k == SortableForm(row, binding)
    IN  IF k.exc # "none" THEN k
        ELSE IF k.val.s = <<>> THEN Raised("IndexError")
        ELSE Returned(Str(<<k.val.s[1]>>))

\* C22: Facet.titlesortkey(row, binding) returns the sortable form of
\* row[binding] and Facet.firstletter(row, binding) its first character; a
\* row lacking the binding makes both raise KeyError (not applicable).
C22_FirstLetterFollowsBinding ==
    pc = "called" =>
        /\ callargs.fn = "titlesortkey" =>
               callret.outcome = SortableForm(callargs.row, callargs.binding)
        /\ callargs.fn = "firstletter" =>
               callret.outcome = FirstOfSortableForm(callargs.row, callargs.binding)

----------------------------------------------------------------------------
(* Properties of the pages of a pageset (SpecToc) *)

\* toc_pagesets has returned and nothing else has run yet
PagesetsReturned == pc = "toc_select_for_pages"

\* the positions of the rows for which the facet's selector gives the value
RowsSelecting(facet, value) ==
    {i \in DOMAIN data :
        Apply(facet.selector, data[i], FacetBinding(facet)) = Returned(value)}

FirstOf(S) == CHOOSE i \in S : \A j \in S : i <= j
LastOf(S) == CHOOSE i \in S : \A j \in S : j <= i

FragmentOf(facet, i) ==
    Apply(facet.identificator, data[i], FacetBinding(facet))

\* C23: the URL fragment (TocPage.value) of every page is identificator(row)
\* of the first row, in input order, whose selector gives the page's value.
C23_UrlFragmentOfFirstRow ==
    PagesetsReturned =>
        \A n \in DOMAIN pagesets :
            \A k \in DOMAIN pagesets[n].pages :
                LET facet == TocFacets(facets)[n]
                    page == pagesets[n].pages[k]
                    first == FirstOf(RowsSelecting(facet, page.linktext))
                IN  FragmentOf(facet, first) = Returned(page.value)

\* the values the facet's selector gives over the rows it applies to
SelectedValues(facet) ==
    {Apply(facet.selector, data[i], FacetBinding(facet)).val :
        i \in {j \in DOMAIN data :
                  Apply(facet.selector, data[j], FacetBinding(facet)).exc = "none"}}

\* C24: the pages of every pageset built by toc_pagesets are the distinct
\* selector values over the applicable rows, one page per value with the
\* value as linktext, in ascending order of the values, and in descending
\* order exactly when the facet has selector_descending set.
C24_PageOrder ==
    PagesetsReturned =>
        \A n \in DOMAIN pagesets :
            LET facet == TocFacets(facets)[n]
                pages == pagesets[n].pages
            IN  /\ Len(pages) = Cardinality(SelectedValues(facet))
                /\ {pages[k].linktext : k \in DOMAIN pages} = SelectedValues(facet)
                /\ \A k \in 1..(Len(pages) - 1) :
                       IF facet.selector_descending
                       THEN ValLess(pages[k + 1].linktext, pages[k].linktext)
                       ELSE ValLess(pages[k].linktext, pages[k + 1].linktext)

\* a run with a descending and an ascending pageset of two pages or more
C24_Witness ==
    /\ PagesetsReturned
    /\ \E n \in DOMAIN pagesets :
           /\ TocFacets(facets)[n].selector_descending
           /\ Len(pagesets[n].pages) >= 2
    /\ \E n \in DOMAIN pagesets :
           /\ ~TocFacets(facets)[n].selector_descending
           /\ Len(pagesets[n].pages) >= 2

----------------------------------------------------------------------------
(* Properties of the buckets (SpecToc) *)

\* the TOC facet a bucket belongs to
FacetOfBucket(k) ==
    LET fs == TocFacets(facets)
    IN  fs[CHOOSE n \in DOMAIN fs : FacetBinding(fs[n]) = k[1]]

\* the position in data of the row an item was made from
RowOfItem(item) == CHOOSE i \in DOMAIN data : data[i].uri = item.uri

\* key(row) of the row of the item at position i of the bucket
KeyOfItem(k, i) ==
    Apply(FacetOfBucket(k).key, data[RowOfItem(pagecontent[k][i])], k[1]).val

\* C25: the items of every bucket returned by toc_select_for_pages are in
\* ascending order of the facet's key(row), in descending order exactly when
\* key_descending is set, and rows with equal keys are in the order they
\* have in the row list.
C25_BucketOrder ==
    pc = "toc_done" =>
        \A k \in DOMAIN pagecontent :
            \A i, j \in DOMAIN pagecontent[k] :
                i < j =>
                    /\ IF FacetOfBucket(k).key_descending
                       THEN ~ValLess(KeyOfItem(k, i), KeyOfItem(k, j))
                       ELSE ~ValLess(KeyOfItem(k, j), KeyOfItem(k, i))
                    /\ KeyOfItem(k, i) = KeyOfItem(k, j) =>
                           RowOfItem(pagecontent[k][i]) < RowOfItem(pagecontent[k][j])

\* a descending bucket holding two rows with equal keys and a third row
\* with another key
C25_Witness ==
    /\ pc = "toc_done"
    /\ \E k \in DOMAIN pagecontent :
           /\ FacetOfBucket(k).key_descending
           /\ \E i, j \in DOMAIN pagecontent[k] :
                  i < j /\ KeyOfItem(k, i) = KeyOfItem(k, j)
           /\ \E i, j \in DOMAIN pagecontent[k] :
                  KeyOfItem(k, i) # KeyOfItem(k, j)

----------------------------------------------------------------------------
(* Properties of the landing page (SpecLanding) *)

\* C26: once toc_pagesets and toc_select_for_pages have returned for a
\* non-empty row list, toc_generate_first_page raises nothing and generates
\* the index page from the first page of the first pageset, with that
\* page's bucket as its document list.
C26_LandingPage ==
    /\ pc = "raised" => raised.call # "toc_generate_first_page"
    /\ pc = "toc_generated" =>
           /\ callret.effective_basefile = "index"
           /\ callret.binding = pagesets[1].pages[1].binding
           /\ callret.value = pagesets[1].pages[1].value
           /\ callret.documentlist =
                  pagecontent[<<pagesets[1].pages[1].binding,
                                pagesets[1].pages[1].value>>]

----------------------------------------------------------------------------
(* Properties of the rows of faceted_data (SpecSelect) *)

\* the values the selected rows of a document have for a binding
ValuesOf(rows, uri, binding) ==
    {rows[i][binding] : i \in {j \in DOMAIN rows :
                                  rows[j].uri = uri /\ Has(rows[j], binding)}}

RowsOf(rows, uri) == {i \in DOMAIN rows : rows[i].uri = uri}

\* seq without the repetitions of its elements, first occurrences kept
RECURSIVE FirstOccurrences(_)
FirstOccurrences(seq) ==
    IF seq = <<>> THEN <<>>
    ELSE LET front == FirstOccurrences(SubSeq(seq, 1, Len(seq) - 1))
             last == seq[Len(seq)]
         IN  IF \E i \in DOMAIN front : front[i] = last THEN front
             ELSE Append(front, last)

\* C27: faceted_data returns one row per value for a document with several
\* values of a facet with multiple_values, each carrying the document's
\* uri; of rows that are duplicates of each other it keeps the first, and
\* the kept rows are in their input order.
C27_RowsPerDocument ==
    pc = "called" =>
        /\ SubjectFacet.multiple_values
        /\ \A i \in DOMAIN callargs :
               LET uri == callargs[i].uri
                   binding == FacetBinding(SubjectFacet)
                   values == ValuesOf(callargs, uri, binding)
               IN  values # {} =>
                       /\ ValuesOf(callret, uri, binding) = values
                       /\ Cardinality(RowsOf(callret, uri)) = Cardinality(values)
        /\ callret = FirstOccurrences(callargs)

----------------------------------------------------------------------------
(* Properties of the archive references (SpecAtom) *)

\* C28: every prev-archive and next-archive reference written by a call of
\* news_write_atom names a file written by that call; when no chunk is cut
\* the main file has no prev-archive reference.
C28_NoDanglingReference ==
    AtomDone =>
        /\ \A i \in DOMAIN written :
               /\ written[i].prev # NoArchive => IsWritten(written[i].prev)
               /\ written[i].next # NoArchive => IsWritten(written[i].next)
        /\ cnt = 0 => MainFile.prev = NoArchive

----------------------------------------------------------------------------
(* Properties of toc() after a change of the dump (SpecBuild) *)

\* path is missing or was last written before the dump
OlderThanDump(fs, path) ==
    Exists(fs, DumpPath) /\ fs[path].mtime < fs[DumpPath].mtime

TocRun == runlog.ran /\ runlog.fn = "toc" /\ ~runlog.force /\ repo.tabs

\* C29: a toc() run without force that finds the dump newer than the
\* faceted_data cache and the TOC index writes the cache and the TOC pages
\* again; no toc() run returns without regenerating while the dump is newer
\* than the TOC index.
C29_StalenessPropagation ==
    TocRun =>
        /\ (/\ OlderThanDump(runlog.before, FacetedDataPath)
            /\ OlderThanDump(runlog.before, TocIndexPath)
            /\ repo.hasrows)
               => {FacetedDataPath, TocPagePath, TocIndexPath} \subseteq runlog.rewritten
        /\ OlderThanDump(runlog.before, TocIndexPath) => ~runlog.skipped

----------------------------------------------------------------------------
(* Termination of news_write_atom (SpecAtomLive) *)

\* an iteration of the chunking loop takes archivesize entries from the
\* entries not yet archived
ChunkStep ==
    cnt' # cnt =>
        /\ cnt' = cnt + 1
        /\ Len(entries') = Len(entries) - archivesize
        /\ Len(entries') < Len(entries)

\* the main file has been written once, by the last write of the call
MainWrittenLast ==
    /\ Cardinality(WritesOf(MainName)) = 1
    /\ written[Len(written)].name = MainName
    /\ Len(written) = cnt + 1

\* C30: the chunking loop of news_write_atom terminates; each iteration
\* lowers the number of entries not yet archived by archivesize; the main
\* file is written exactly once, after the last chunk.
C30_SplitterTermination ==
    /\ <>AtomDone
    /\ [][ChunkStep]_vars
    /\ [](AtomDone => MainWrittenLast)
    /\ [](~AtomDone => ~IsWritten(MainName))

\* a call that ended after cutting two chunks or more
C30_Witness == AtomDone /\ cnt >= 2 /\ MainWrittenLast

====
